---- MODULE Spec2Model ----
(***************************************************************************)
(* Model of the filter engine of dorny/paths-filter (src/src/filter.ts):   *)
(* loading of the rules from an already deserialized YAML document and     *)
(* matching of changed files against the loaded rules; and of the action   *)
(* around it (src/src/main.ts): the choice of the change detection routine *)
(* and the export of the match results as outputs; of the search for the   *)
(* merge base and the parsers of git.ts; of the paging of the GitHub API   *)
(* and the parser of the `files` input (src/unnamed/part_011); and of the  *)
(* escaping of file names (list-format).                                   *)
(*                                                                         *)
(* Strings whose characters the code inspects (rule names, status keys)    *)
(* are sequences of one-character strings.  Glob patterns and file names   *)
(* are sequences of path segments, "src/**" being <<"src", "**">>.         *)
(* A YAML node is a record [t |-> tag, v |-> value].                       *)
(***************************************************************************)
EXTENDS Integers, Sequences, FiniteSets, TLC

VARIABLES phase, filter, last, main, search

vars == <<phase, filter, last, main, search>>

(***************************************************************************)
(* Bounds of the model                                                     *)
(***************************************************************************)
MaxSeqLen == 2      \* longest YAML sequence of a rule value
MaxFiles == 2       \* longest list of changed files given to match

(***************************************************************************)
(* Generic helpers                                                         *)
(***************************************************************************)
SeqsUpTo(S, n) == UNION {[1..k -> S] : k \in 0..n}

Range(s) == {s[i] : i \in 1..Len(s)}

(***************************************************************************)
(* src/src/file.ts: enum ChangeStatus                                      *)
(***************************************************************************)
Added == <<"a", "d", "d", "e", "d">>
Copied == <<"c", "o", "p", "i", "e", "d">>
Deleted == <<"d", "e", "l", "e", "t", "e", "d">>
Modified == <<"m", "o", "d", "i", "f", "i", "e", "d">>
Renamed == <<"r", "e", "n", "a", "m", "e", "d">>
Unmerged == <<"u", "n", "m", "e", "r", "g", "e", "d">>

\* Object.values(ChangeStatus)
ChangeStatus == <<Added, Copied, Deleted, Modified, Renamed, Unmerged>>

(***************************************************************************)
(* JavaScript string functions used on status keys                         *)
(***************************************************************************)
UpperChars == <<"A", "B", "C", "D", "E", "F", "G", "H", "I", "J", "K", "L", "M",
                "N", "O", "P", "Q", "R", "S", "T", "U", "V", "W", "X", "Y", "Z">>
LowerChars == <<"a", "b", "c", "d", "e", "f", "g", "h", "i", "j", "k", "l", "m",
                "n", "o", "p", "q", "r", "s", "t", "u", "v", "w", "x", "y", "z">>

toLowerCase(s) ==
  [i \in 1..Len(s) |->
     IF \E j \in 1..Len(UpperChars) : UpperChars[j] = s[i]
     THEN LowerChars[CHOOSE j \in 1..Len(UpperChars) : UpperChars[j] = s[i]]
     ELSE s[i]]

RECURSIVE split(_, _)
split(s, sep) ==
  IF \A i \in 1..Len(s) : s[i] # sep
  THEN <<s>>
  ELSE LET i == CHOOSE j \in 1..Len(s) : s[j] = sep /\ \A h \in 1..(j - 1) : s[h] # sep
       IN <<SubSeq(s, 1, i - 1)>> \o split(SubSeq(s, i + 1, Len(s)), sep)

RECURSIVE trim(_)
trim(s) ==
  IF s = <<>> THEN s
  ELSE IF Head(s) = " " THEN trim(Tail(s))
  ELSE IF s[Len(s)] = " " THEN trim(SubSeq(s, 1, Len(s) - 1))
  ELSE s

(***************************************************************************)
(* YAML nodes, as jsyaml.load returns them (aliases already resolved)      *)
(***************************************************************************)
StrNode(p) == [t |-> "str", v |-> p]
SeqNode(s) == [t |-> "seq", v |-> s]
MapNode(entries) == [t |-> "map", v |-> entries]
Entry(k, n) == [k |-> k, v |-> n]
NumNode == [t |-> "num", v |-> <<>>]         \* a non-zero number
BoolNode == [t |-> "bool", v |-> <<>>]       \* true
NullNode == [t |-> "null", v |-> <<>>]
UndefinedNode == [t |-> "undefined", v |-> <<>>]

\* typeof x
typeof(n) ==
  CASE n.t = "str" -> "string"
    [] n.t = "num" -> "number"
    [] n.t = "bool" -> "boolean"
    [] n.t = "undefined" -> "undefined"
    [] OTHER -> "object"

\* Array.isArray(x)
isArray(n) == n.t = "seq"

\* conversion of a value to a boolean in `a && b`
Truthy(n) ==
  CASE n.t = "str" -> n.v # <<>>
    [] n.t = "null" -> FALSE
    [] n.t = "undefined" -> FALSE
    [] OTHER -> TRUE

\* item[name] of a mapping: undefined when the key is missing
Prop(item, name) ==
  IF \E i \in 1..Len(item.v) : item.v[i].k = name
  THEN item.v[CHOOSE i \in 1..Len(item.v) : item.v[i].k = name].v
  ELSE UndefinedNode

\* Object.entries(doc): the entries of a mapping, index/value pairs of an array
IndexKeys == <<<<"0">>, <<"1">>, <<"2">>, <<"3">>>>

Entries(doc) ==
  IF doc.t = "seq"
  THEN [i \in 1..Len(doc.v) |-> Entry(IndexKeys[i], doc.v[i])]
  ELSE doc.v

(***************************************************************************)
(* Errors                                                                  *)
(***************************************************************************)
NoError == [name |-> "", prefix |-> "", detail |-> "", arg |-> <<>>]

InvalidFilterPrefix == "Invalid filter YAML format: "

\* filter.ts:144  throw new Error(`Invalid filter YAML format: ${message}.`)
throwInvalidFormatError(detail, arg) ==
  [name |-> "Error", prefix |-> InvalidFilterPrefix, detail |-> detail, arg |-> arg]

\* errors thrown by the runtime or by picomatch, none of them an Error with
\* the "Invalid filter" prefix
TypeError(detail) == [name |-> "TypeError", prefix |-> "", detail |-> detail, arg |-> <<>>]

Thrown(e) == [error |-> e, items |-> <<>>]
Returned(items) == [error |-> NoError, items |-> items]

(***************************************************************************)
(* picomatch(glob, options): a predicate on file names                     *)
(***************************************************************************)
DotSegments == {".x"}

RECURSIVE GlobTest(_, _, _)
GlobTest(pat, path, dot) ==
  IF pat = <<>> THEN path = <<>>
  ELSE IF Head(pat) = "**"
       THEN \/ GlobTest(Tail(pat), path, dot)
            \/ /\ path # <<>>
               /\ dot \/ Head(path) \notin DotSegments
               /\ GlobTest(pat, Tail(path), dot)
  ELSE IF Head(pat) = "*"
       THEN /\ path # <<>>
            /\ dot \/ Head(path) \notin DotSegments
            /\ GlobTest(Tail(pat), Tail(path), dot)
  ELSE /\ path # <<>>
       /\ Head(path) = Head(pat)
       /\ GlobTest(Tail(pat), Tail(path), dot)

\* picomatch.test: the empty input matches nothing
Test(pat, input, dot) == input # <<>> /\ GlobTest(pat, input, dot)

\* the matcher function returned by picomatch, applied to str
Matches(m, str) ==
  /\ \E i \in 1..Len(m.globs) : Test(m.globs[i], str, m.dot)
  /\ ~ \E j \in 1..Len(m.ignore) : Test(m.ignore[j], str, m.dot)

ValidGlob(n) == n.t = "str" /\ n.v # <<>>

\* glob is a string node or an array of string nodes; options.ignore a list of
\* nodes.  Every glob is compiled together with the ignore list, and a glob or
\* an ignore entry that is not a non-empty string makes picomatch throw.
picomatch(glob, options) ==
  LET globs == IF glob.t = "str" THEN <<glob.v>>
               ELSE [i \in 1..Len(glob.v) |-> glob.v[i].v]
      bad == /\ globs # <<>>
             /\ \/ \E i \in 1..Len(globs) : globs[i] = <<>>
                \/ \E j \in 1..Len(options.ignore) : ~ValidGlob(options.ignore[j])
  IN IF bad
     THEN [error |-> TypeError("Expected pattern to be a non-empty string"),
           fn |-> [globs |-> <<>>, dot |-> options.dot, ignore |-> <<>>]]
     ELSE [error |-> NoError,
           fn |-> [globs |-> globs, dot |-> options.dot,
                   ignore |-> [j \in 1..Len(options.ignore) |-> options.ignore[j].v]]]

(***************************************************************************)
(* src/src/filter.ts: class Filter                                         *)
(***************************************************************************)
\* FilterRuleItem.status: undefined, or the array of required statuses
StatusUndefined == [defined |-> FALSE, values |-> <<>>]
StatusOf(values) == [defined |-> TRUE, values |-> values]

FilterRuleItem(status, fn) == [status |-> status, isMatch |-> fn]

\* filter.ts:128
isStringsArray(arr) ==
  IF isArray(arr) THEN \A i \in 1..Len(arr.v) : typeof(arr.v[i]) = "string" ELSE FALSE

\* isChangeStatus that accepts every token
isChangeStatus_AcceptingAll(test) == NoError

\* filter.ts:134  true, or the error thrown for a token that is no ChangeStatus
isChangeStatus(test) ==
  IF \E i \in 1..Len(ChangeStatus) : ChangeStatus[i] = test
  THEN NoError
  ELSE throwInvalidFormatError("Change Status Filter Validation", test)

\* filter.ts:108-112  key.split('|').map(trim).filter(nonempty).map(isChangeStatus && toLowerCase)
StatusTokens(key) ==
  LET parts == split(key, "|")
      trimmed == [i \in 1..Len(parts) |-> trim(parts[i])]
  IN SelectSeq(trimmed, LAMBDA x : Len(x) > 0)

ParseStatus(key) ==
  LET tokens == StatusTokens(key)
      badIdx == {i \in 1..Len(tokens) : isChangeStatus(tokens[i]) # NoError}
  IN IF badIdx # {}
     THEN [error |-> isChangeStatus(tokens[CHOOSE i \in badIdx : \A j \in badIdx : i <= j]),
           values |-> <<>>]
     ELSE [error |-> NoError,
           values |-> [i \in 1..Len(tokens) |-> toLowerCase(tokens[i])]]

\* `...excludes`: arrays and strings are iterable, other values make the spread throw
IsIterable(n) == n.t \in {"seq", "str"}

\* the elements of an array; a string spreads into its parts, each a string
Spread(n) == IF n.t = "seq" THEN n.v ELSE [i \in 1..Len(n.v) |-> StrNode(<<n.v[i]>>)]

\* a status-qualified entry compiled with picomatch's default for dot
StatusEntry_DotDisabled(key, pattern, options) ==
  IF typeof(pattern) # "string" /\ (IF ~isArray(pattern) THEN TRUE ELSE ~isStringsArray(pattern))
  THEN Thrown(throwInvalidFormatError("Expected [key:string]= pattern:string | string[]", key))
  ELSE LET st == ParseStatus(key)
           pm == picomatch(pattern, [dot |-> FALSE, ignore |-> options.ignore])
       IN IF st.error # NoError THEN Thrown(st.error)
          ELSE IF pm.error # NoError THEN Thrown(pm.error)
          ELSE Returned(<<FilterRuleItem(StatusOf(st.values), pm.fn)>>)

\* filter.ts:96-115  the single entry of a status-qualified mapping
StatusEntry(key, pattern, options) ==
  IF typeof(pattern) # "string" /\ (IF ~isArray(pattern) THEN TRUE ELSE ~isStringsArray(pattern))
  THEN Thrown(throwInvalidFormatError("Expected [key:string]= pattern:string | string[]", key))
  ELSE LET st == ParseStatus(key)
           pm == picomatch(pattern, options)
       IN IF st.error # NoError THEN Thrown(st.error)
          ELSE IF pm.error # NoError THEN Thrown(pm.error)
          ELSE Returned(<<FilterRuleItem(StatusOf(st.values), pm.fn)>>)

RECURSIVE parseFilterItemYaml(_, _, _)
RECURSIVE parseAll(_, _, _)

\* the mapping of a sequence that keeps the items of its first element only
parseAll_FirstOnly(elems, excludes, globalIgnoreArray) ==
  IF elems = <<>> THEN Returned(<<>>)
  ELSE parseFilterItemYaml(Head(elems), excludes, globalIgnoreArray)

\* filter.ts:89  flat(item.map(i => this.parseFilterItemYaml(i, excludes, globalIgnoreArray)))
parseAll(elems, excludes, globalIgnoreArray) ==
  IF elems = <<>> THEN Returned(<<>>)
  ELSE LET first == parseFilterItemYaml(Head(elems), excludes, globalIgnoreArray)
       IN IF first.error # NoError THEN first
          ELSE LET rest == parseAll(Tail(elems), excludes, globalIgnoreArray)
               IN IF rest.error # NoError THEN rest
                  ELSE Returned(first.items \o rest.items)

\* filter.ts:78-126
parseFilterItemYaml(item, excludes, globalIgnoreArray) ==
  IF ~IsIterable(excludes) THEN Thrown(TypeError("excludes is not iterable"))
  ELSE
  LET MatchOptions == [dot |-> TRUE, ignore |-> Spread(excludes) \o globalIgnoreArray]
  IN IF typeof(item) = "string" \/ isStringsArray(item)
     THEN LET pm == picomatch(item, MatchOptions)
          IN IF pm.error # NoError THEN Thrown(pm.error)
             ELSE Returned(<<FilterRuleItem(StatusUndefined, pm.fn)>>)
     ELSE IF isArray(item)
     THEN parseAll(item.v, excludes, globalIgnoreArray)
     ELSE IF typeof(item) = "object"
     THEN IF item.t = "null"
          THEN Thrown(TypeError("Cannot convert undefined or null to object"))
          ELSE IF Len(item.v) = 2 /\ Truthy(Prop(item, <<"p", "a", "t", "h", "s", "_", "i", "g", "n", "o", "r", "e">>))
                                  /\ Truthy(Prop(item, <<"p", "a", "t", "h", "s">>))
          THEN parseFilterItemYaml(Prop(item, <<"p", "a", "t", "h", "s">>),
                                   Prop(item, <<"p", "a", "t", "h", "s", "_", "i", "g", "n", "o", "r", "e">>),
                                   globalIgnoreArray)
          ELSE IF Len(item.v) = 1
          THEN StatusEntry(item.v[1].k, item.v[1].v, MatchOptions)
          ELSE Thrown(throwInvalidFormatError("Expected a filter rule object with keys paths & paths_ignore", <<>>))
     ELSE Thrown(throwInvalidFormatError("Unexpected element type", <<>>))

\* A JavaScript object used as a table: the sequence of its [key, value]
\* properties in enumeration order (integer-like keys ascending first, then
\* the other keys in insertion order).  SetProp is obj[key] = value.
IsIndexKey(key) == \E i \in 1..Len(IndexKeys) : IndexKeys[i] = key
IndexOfKey(key) == CHOOSE i \in 1..Len(IndexKeys) : IndexKeys[i] = key

HasKey(obj, key) == \E i \in 1..Len(obj) : obj[i].key = key

Keys(obj) == [i \in 1..Len(obj) |-> obj[i].key]

SetProp(obj, key, value) ==
  IF HasKey(obj, key)
  THEN [i \in 1..Len(obj) |-> IF obj[i].key = key THEN [key |-> key, value |-> value] ELSE obj[i]]
  ELSE IF IsIndexKey(key)
  THEN LET before == SelectSeq(obj, LAMBDA r : IsIndexKey(r.key) /\ IndexOfKey(r.key) < IndexOfKey(key))
           after == SelectSeq(obj, LAMBDA r : ~(IsIndexKey(r.key) /\ IndexOfKey(r.key) < IndexOfKey(key)))
       IN before \o <<[key |-> key, value |-> value]>> \o after
  ELSE Append(obj, [key |-> key, value |-> value])

\* filter.ts:50-61  the loop over Object.entries(doc); returns the error thrown
\* (NoError when the loop completes) and the rules table as the loop left it
RECURSIVE loadEntries(_, _, _)
loadEntries(rules, entries, globalIgnoreArray) ==
  IF entries = <<>> THEN [error |-> NoError, rules |-> rules]
  ELSE LET key == Head(entries).k
           item == Head(entries).v
       IN IF typeof(item) # "string" /\ ~isArray(item)
          THEN [error |-> throwInvalidFormatError("Filter rules must only be an array or a single string", <<>>),
                rules |-> rules]
          ELSE LET parsed == parseFilterItemYaml(item, SeqNode(<<>>), globalIgnoreArray)
               IN IF parsed.error # NoError
                  THEN [error |-> parsed.error, rules |-> rules]
                  ELSE loadEntries(SetProp(rules, key, parsed.items), Tail(entries), globalIgnoreArray)

\* filter.ts:44-62  load(yaml, globalIgnoreArray), doc being jsyaml.load(yaml)
load(rules, doc, globalIgnoreArray) ==
  IF typeof(doc) # "object"
  THEN [error |-> throwInvalidFormatError("Root element is not an object", <<>>), rules |-> rules]
  ELSE IF doc.t = "null"
  THEN [error |-> TypeError("Cannot convert undefined or null to object"), rules |-> rules]
  ELSE loadEntries(rules, Entries(doc), globalIgnoreArray)

\* isMatch without the status condition
isMatch_IgnoringStatus(file, patterns) ==
  \E i \in 1..Len(patterns) : Matches(patterns[i].isMatch, file.filename)

\* filter.ts:72-76
isMatch(file, patterns) ==
  \E i \in 1..Len(patterns) :
     /\ \/ ~patterns[i].status.defined
        \/ \E j \in 1..Len(patterns[i].status.values) : patterns[i].status.values[j] = file.status
     /\ Matches(patterns[i].isMatch, file.filename)

\* files.filter(file => this.isMatch(file, patterns))
RECURSIVE filterFiles(_, _)
filterFiles(files, patterns) ==
  IF files = <<>> THEN <<>>
  ELSE IF isMatch(Head(files), patterns)
       THEN <<Head(files)>> \o filterFiles(Tail(files), patterns)
       ELSE filterFiles(Tail(files), patterns)

\* filter.ts:64-70  the returned result, with the rules table and the array
\* passed in as the call leaves them
RECURSIVE matchRules(_, _, _)
matchRules(rules, files, result) ==
  IF rules = <<>> THEN result
  ELSE matchRules(Tail(rules), files,
                  SetProp(result, Head(rules).key, filterFiles(files, Head(rules).value)))

\* match that removes from the rules table the rules that matched a file
match_ConsumingRules(rules, files) ==
  [rules |-> SelectSeq(rules, LAMBDA r : filterFiles(files, r.value) = <<>>), files |-> files,
   result |-> matchRules(rules, files, <<>>)]

\* match that leaves out the rules no file matches
match_SkippingEmpty(rules, files) ==
  [rules |-> rules, files |-> files,
   result |-> SelectSeq(matchRules(rules, files, <<>>), LAMBDA r : r.value # <<>>)]

\* filter.ts:64-70
match(rules, files) ==
  [rules |-> rules, files |-> files, result |-> matchRules(rules, files, <<>>)]

(***************************************************************************)
(* Inputs: documents, ignore lists and changed files                       *)
(***************************************************************************)
AnyGlob == <<"**">>                 \* "**"
SrcGlob == <<"src", "**">>          \* "src/**"
DocGlob == <<"doc", "**">>          \* "doc/**"
EmptyGlob == <<>>                   \* ""

Key_added == Added
Key_added_modified == <<"a", "d", "d", "e", "d", "|", "m", "o", "d", "i", "f", "i", "e", "d">>
Key_spaced == <<"a", "d", "d", "e", "d", " ", "|", " ", "m", "o", "d", "i", "f", "i", "e", "d">>
Key_Added_MODIFIED == <<"A", "d", "d", "e", "d", "|", "M", "O", "D", "I", "F", "I", "E", "D">>
Key_bogus == <<"b", "o", "g", "u", "s">>
Key_added_bogus == <<"a", "d", "d", "e", "d", "|", "b", "o", "g", "u", "s">>
Key_added_bar == <<"a", "d", "d", "e", "d", "|">>
Key_paths == <<"p", "a", "t", "h", "s">>
Key_paths_ignore == <<"p", "a", "t", "h", "s", "_", "i", "g", "n", "o", "r", "e">>

StatusKeys == {Key_added, Key_added_modified, Key_spaced, Key_Added_MODIFIED,
               Key_bogus, Key_added_bogus, Key_added_bar}

GoodGlobNodes == {StrNode(AnyGlob), StrNode(SrcGlob)}

StatusMap(key, value) == MapNode(<<Entry(key, value)>>)

PathsMap(paths, pathsIgnore) ==
  MapNode(<<Entry(Key_paths, paths), Entry(Key_paths_ignore, pathsIgnore)>>)

StatusMaps ==
  {StatusMap(k, StrNode(AnyGlob)) : k \in StatusKeys}
  \cup {StatusMap(Key_added, v) :
          v \in {SeqNode(<<StrNode(SrcGlob), StrNode(AnyGlob)>>), StrNode(EmptyGlob), NumNode, NullNode,
                 StatusMap(Key_added, StrNode(AnyGlob))}}
  \cup {StatusMap(Key_bogus, NumNode)}

PathsMaps ==
  {PathsMap(StrNode(AnyGlob), SeqNode(<<StrNode(SrcGlob)>>)),
   PathsMap(StatusMap(Key_added, StrNode(AnyGlob)), SeqNode(<<StrNode(SrcGlob)>>)),
   PathsMap(StrNode(AnyGlob), NumNode),
   PathsMap(StrNode(AnyGlob), NullNode),
   \* a {paths, paths_ignore} entry inside the paths of another one
   PathsMap(PathsMap(StrNode(AnyGlob), SeqNode(<<StrNode(DocGlob)>>)), SeqNode(<<StrNode(SrcGlob)>>))}

\* the nodes found in the sequence of a rule
Elements ==
  GoodGlobNodes \cup {StrNode(EmptyGlob), NumNode, NullNode, BoolNode}
  \cup {SeqNode(<<StrNode(SrcGlob)>>), SeqNode(<<StrNode(SrcGlob), StrNode(AnyGlob)>>)}
  \cup StatusMaps \cup PathsMaps \cup {MapNode(<<>>)}

\* the nodes that longer sequences are made of
CoreElements ==
  GoodGlobNodes
  \cup {NullNode, SeqNode(<<StrNode(SrcGlob)>>),
        StatusMap(Key_added, StrNode(AnyGlob)), StatusMap(Key_added_bogus, StrNode(AnyGlob)),
        PathsMap(StrNode(AnyGlob), SeqNode(<<StrNode(SrcGlob)>>))}

\* the values of a rule: one node, or a sequence of nodes
RuleValues ==
  Elements \cup {SeqNode(<<e>>) : e \in Elements}
  \cup {SeqNode(s) : s \in SeqsUpTo(CoreElements, MaxSeqLen)}

\* the values of the rules of a document with two rules
ShortRuleValues == CoreElements \cup {NumNode} \cup {SeqNode(<<e>>) : e \in CoreElements}

RuleNames == {<<"a">>, <<"b">>}

Docs ==
  \* scalars and the empty document
  {StrNode(<<"not a dictionary">>), NumNode, BoolNode, NullNode, UndefinedNode}
  \* sequences
  \cup {SeqNode(s) : s \in SeqsUpTo(GoodGlobNodes \cup {NumNode, StatusMap(Key_added, StrNode(AnyGlob))}, MaxSeqLen)}
  \* mappings of one or two rules
  \cup {MapNode(<<>>)}
  \cup {MapNode(<<Entry(n, v)>>) : n \in RuleNames, v \in RuleValues}
  \cup UNION {{MapNode(<<Entry(n, v), Entry(m, w)>>) :
                  m \in RuleNames \ {n}, v \in ShortRuleValues, w \in ShortRuleValues} : n \in RuleNames}

GlobalIgnoreArrays == {<<>>, <<StrNode(DocGlob)>>}

Filenames == {<<"src", "a.js">>, <<"doc", "b.md">>}

File(f, s) == [filename |-> f, status |-> s]

Files == {File(<<"src", "a.js">>, Added), File(<<"src", "a.js">>, Modified), File(<<"doc", "b.md">>, Modified)}

FileLists == SeqsUpTo(Files, MaxFiles)

(***************************************************************************)
(* State: the Filter object of a run and the record of the last call       *)
(***************************************************************************)
NoDoc == [t |-> "none", v |-> <<>>]

NoFilter == [exists |-> FALSE, rules |-> <<>>]

Call(op, doc, g, before, error, input, files, result) ==
  [op |-> op, doc |-> doc, globalIgnoreArray |-> g, before |-> before, error |-> error,
   input |-> input, files |-> files, result |-> result]

(***************************************************************************)
(* src/src/git.ts: the constants and the pure helpers main.ts uses         *)
(***************************************************************************)
ShaLength == 40

\* git.ts:5-6
NULL_SHA == [i \in 1..ShaLength |-> "0"]
HEAD == <<"H", "E", "A", "D">>

Digits == <<"0", "1", "2", "3", "4", "5", "6", "7", "8", "9">>

\* ref.startsWith(prefix), ref.slice(n)
startsWith(s, prefix) == Len(s) >= Len(prefix) /\ SubSeq(s, 1, Len(prefix)) = prefix
slice(s, n) == SubSeq(s, n + 1, Len(s))

RefsHeads == <<"r", "e", "f", "s", "/", "h", "e", "a", "d", "s", "/">>
RefsTags == <<"r", "e", "f", "s", "/", "t", "a", "g", "s", "/">>

\* git.ts:205-215  the empty text stands for a missing ref as well
getShortName(ref) ==
  IF ref = <<>> THEN <<>>
  ELSE IF startsWith(ref, RefsHeads) THEN slice(ref, Len(RefsHeads))
  ELSE IF startsWith(ref, RefsTags) THEN slice(ref, Len(RefsTags))
  ELSE ref

\* git.ts:217-219  /^[a-z0-9]{40}$/.test(ref)
isGitSha(ref) ==
  /\ Len(ref) = ShaLength
  /\ \A i \in 1..Len(ref) : ref[i] \in Range(LowerChars) \cup Range(Digits)

(***************************************************************************)
(* src/src/main.ts                                                         *)
(*                                                                         *)
(* What a function does to the outside is part of what it returns here:    *)
(* the change detection routines it invokes (calls), the outputs it sets   *)
(* (outputs, one entry per core.setOutput call) and the lines it logs.     *)
(***************************************************************************)
\* throw new Error(message)
Error(message) == [name |-> "Error", prefix |-> "", detail |-> message, arg |-> <<>>]

\* one call of a change detection routine of git.ts or of the GitHub API
Detect(routine, args) == [routine |-> routine, args |-> args]

\* one line of the log: core.info, core.warning, core.startGroup, core.endGroup
Log(fn, text, arg) == [fn |-> fn, text |-> text, arg |-> arg]

\* the values given to core.setOutput
JsBoolean(b) == [t |-> "boolean", v |-> b]
JsNumber(n) == [t |-> "number", v |-> n]
JsString(s) == [t |-> "string", v |-> s]

\* the event the workflow was triggered by: github.context and its payload.
\* A field that is missing (undefined or null) is the empty text: the code
\* only tests such a field for truthiness before it compares it.
Context(eventName, ref, defaultBranch, before) ==
  [eventName |-> eventName, ref |-> ref, default_branch |-> defaultBranch, before |-> before]

\* getChangedFilesFromGit that compares the base as given, not its short name,
\* with the pushed ref
getChangedFilesFromGit_ComparingLongName(base, initialFetchDepth, context, currentRef) ==
  LET defaultRef == context.default_branch
      beforeSha == IF context.eventName = "push" THEN context.before ELSE <<>>
      refMissing == getShortName(context.ref) = <<>>
      pushRef == IF refMissing THEN currentRef ELSE getShortName(context.ref)
      refLog == IF refMissing
                THEN <<Log("warning", "'ref' field is missing in event payload", <<>>)>>
                ELSE <<>>
      baseRef == IF getShortName(base) # <<>> THEN getShortName(base) ELSE defaultRef
      isBaseRefSha == isGitSha(baseRef)
      isBaseSameAsPush == base = pushRef
      baseSha == IF isBaseRefSha THEN baseRef ELSE beforeSha
  IN IF baseRef = <<>>
     THEN [error |-> Error("This action requires 'base' input to be configured or 'repository.default_branch' to be set in the event payload"),
           calls |-> <<>>, log |-> refLog]
     ELSE IF isBaseRefSha \/ isBaseSameAsPush
     THEN IF ~isBaseRefSha /\ beforeSha = <<>>
          THEN [error |-> NoError, calls |-> <<Detect("getChangesInLastCommit", <<>>)>>,
                log |-> refLog \o <<Log("warning", "'before' field is missing in event payload", <<>>)>>]
          ELSE IF baseSha = NULL_SHA
          THEN IF defaultRef # <<>> /\ baseRef # defaultRef
               THEN [error |-> NoError,
                     calls |-> <<Detect("getChangesSinceMergeBase", <<JsString(defaultRef), JsNumber(initialFetchDepth)>>)>>,
                     log |-> refLog \o <<Log("info", "First push of a branch detected", defaultRef)>>]
               ELSE [error |-> NoError, calls |-> <<Detect("listAllFilesAsAdded", <<>>)>>,
                     log |-> refLog \o <<Log("info", "Initial push detected - all files will be listed as added", <<>>)>>]
          ELSE [error |-> NoError, calls |-> <<Detect("getChanges", <<JsString(baseSha)>>)>>,
                log |-> refLog \o <<Log("info", "Changes will be detected against commit", baseSha)>>]
     ELSE [error |-> NoError,
           calls |-> <<Detect("getChangesSinceMergeBase", <<JsString(baseRef), JsNumber(initialFetchDepth)>>)>>,
           log |-> refLog \o <<Log("info", "Changes will be detected against the branch", baseRef)>>]

\* main.ts:77-126  currentRef is what git.getCurrentRef() answers when asked
getChangedFilesFromGit(base, initialFetchDepth, context, currentRef) ==
  LET defaultRef == context.default_branch
      beforeSha == IF context.eventName = "push" THEN context.before ELSE <<>>
      refMissing == getShortName(context.ref) = <<>>
      pushRef == IF refMissing THEN currentRef ELSE getShortName(context.ref)
      refLog == IF refMissing
                THEN <<Log("warning", "'ref' field is missing in event payload", <<>>)>>
                ELSE <<>>
      baseRef == IF getShortName(base) # <<>> THEN getShortName(base) ELSE defaultRef
      isBaseRefSha == isGitSha(baseRef)
      isBaseSameAsPush == baseRef = pushRef
      baseSha == IF isBaseRefSha THEN baseRef ELSE beforeSha
  IN IF baseRef = <<>>
     THEN [error |-> Error("This action requires 'base' input to be configured or 'repository.default_branch' to be set in the event payload"),
           calls |-> <<>>, log |-> refLog]
     ELSE IF isBaseRefSha \/ isBaseSameAsPush
     THEN IF ~isBaseRefSha /\ beforeSha = <<>>
          THEN [error |-> NoError, calls |-> <<Detect("getChangesInLastCommit", <<>>)>>,
                log |-> refLog \o <<Log("warning", "'before' field is missing in event payload", <<>>)>>]
          ELSE IF baseSha = NULL_SHA
          THEN IF defaultRef # <<>> /\ baseRef # defaultRef
               THEN [error |-> NoError,
                     calls |-> <<Detect("getChangesSinceMergeBase", <<JsString(defaultRef), JsNumber(initialFetchDepth)>>)>>,
                     log |-> refLog \o <<Log("info", "First push of a branch detected", defaultRef)>>]
               ELSE [error |-> NoError, calls |-> <<Detect("listAllFilesAsAdded", <<>>)>>,
                     log |-> refLog \o <<Log("info", "Initial push detected - all files will be listed as added", <<>>)>>]
          ELSE [error |-> NoError, calls |-> <<Detect("getChanges", <<JsString(baseSha)>>)>>,
                log |-> refLog \o <<Log("info", "Changes will be detected against commit", baseSha)>>]
     ELSE [error |-> NoError,
           calls |-> <<Detect("getChangesSinceMergeBase", <<JsString(baseRef), JsNumber(initialFetchDepth)>>)>>,
           log |-> refLog \o <<Log("info", "Changes will be detected against the branch", baseRef)>>]

\* main.ts:58-75
getChangedFiles(token, base, initialFetchDepth, context, currentRef) ==
  IF base = HEAD
  THEN [error |-> NoError, calls |-> <<Detect("getChangesOnHead", <<>>)>>, log |-> <<>>]
  ELSE IF context.eventName = "pull_request" \/ context.eventName = "pull_request_target"
  THEN IF token # ""
       THEN [error |-> NoError, calls |-> <<Detect("getChangedFilesFromApi", <<JsString(token)>>)>>, log |-> <<>>]
       ELSE [error |-> NoError, calls |-> <<Detect("getChangesInLastCommit", <<>>)>>,
             log |-> <<Log("info", "Github token is not available - changes will be detected from PRs merge commit", <<>>)>>]
  ELSE getChangedFilesFromGit(base, initialFetchDepth, context, currentRef)

\* main.ts:12  type ExportFormat
FormatNone == <<"n", "o", "n", "e">>
FormatCsv == <<"c", "s", "v">>
FormatJson == <<"j", "s", "o", "n">>
FormatShell == <<"s", "h", "e", "l", "l">>
FormatEscape == <<"e", "s", "c", "a", "p", "e">>

\* main.ts:227-229
isExportFormat(value) == value \in {FormatNone, FormatCsv, FormatShell, FormatJson, FormatEscape}

\* JSON.stringify of an array of strings none of which needs an escape
RECURSIVE JsonItems(_)
JsonItems(names) ==
  IF names = <<>> THEN <<>>
  ELSE <<"\"">> \o Head(names) \o <<"\"">>
       \o (IF Tail(names) = <<>> THEN <<>> ELSE <<",">>) \o JsonItems(Tail(names))

JSONstringify(names) == <<"[">> \o JsonItems(names) \o <<"]">>

\* main.ts:211-225  the text is a function of the format and of the file
\* names; how list-format/ renders each name is not looked into here
serializeExport(files, format) ==
  LET fileNames == [i \in 1..Len(files) |-> files[i].filename]
  IN IF format \in {FormatCsv, FormatJson, FormatEscape, FormatShell}
     THEN [t |-> "list", v |-> [format |-> format, fileNames |-> fileNames]]
     ELSE JsString(<<>>)

Suffix_count == <<"_", "c", "o", "u", "n", "t">>
Suffix_files == <<"_", "f", "i", "l", "e", "s">>
Name_changes == <<"c", "h", "a", "n", "g", "e", "s">>

Output(name, value) == [name |-> name, value |-> value]

\* main.ts:186-188  one log line per matching file
FileLines(files) == [i \in 1..Len(files) |-> Log("info", "file", files[i])]

\* a loop body that reports in `_count` whether there are files, not how many
ExportEntry_CountAsFlag(key, files, format) ==
  [changes |-> IF Len(files) > 0 THEN <<key>> ELSE <<>>,
   log |-> <<>>,
   outputs |-> <<Output(key, JsBoolean(Len(files) > 0)),
                 Output(key \o Suffix_count, JsNumber(IF Len(files) > 0 THEN 1 ELSE 0))>>
               \o (IF format # FormatNone
                   THEN <<Output(key \o Suffix_files, serializeExport(files, format))>>
                   ELSE <<>>)]

\* main.ts:180-200  the body of the loop, for one entry of Object.entries(results)
ExportEntry(key, files, format) ==
  LET value == Len(files) > 0
  IN [changes |-> IF Len(files) > 0 THEN <<key>> ELSE <<>>,
      log |-> <<Log("startGroup", "Filter", <<key, value>>)>>
              \o (IF Len(files) > 0
                  THEN <<Log("info", "Matching files:", <<>>)>> \o FileLines(files)
                  ELSE <<Log("info", "Matching files: none", <<>>)>>)
              \o <<Log("endGroup", "", <<>>)>>,
      outputs |-> <<Output(key, JsBoolean(value)), Output(key \o Suffix_count, JsNumber(Len(files)))>>
                  \o (IF format # FormatNone
                      THEN <<Output(key \o Suffix_files, serializeExport(files, format))>>
                      ELSE <<>>)]

\* main.ts:180-200  the loop over Object.entries(results)
RECURSIVE ExportEntries(_, _)
ExportEntries(entries, format) ==
  IF entries = <<>> THEN [changes |-> <<>>, log |-> <<>>, outputs |-> <<>>]
  ELSE LET first == ExportEntry(Head(entries).key, Head(entries).value, format)
           rest == ExportEntries(Tail(entries), format)
       IN [changes |-> first.changes \o rest.changes,
           log |-> first.log \o rest.log,
           outputs |-> first.outputs \o rest.outputs]

\* exportResults that writes the list of changes whatever the rules are named
exportResults_Overwriting(results, format) ==
  LET loop == ExportEntries(results, format)
      changesJson == JSONstringify(loop.changes)
  IN [outputs |-> loop.outputs \o <<Output(Name_changes, JsString(changesJson))>>,
      log |-> <<Log("info", "Results:", <<>>)>> \o loop.log
              \o <<Log("info", "Changes output set to", changesJson)>>]

\* main.ts:177-209  results is the table match returned
exportResults(results, format) ==
  LET loop == ExportEntries(results, format)
      changesJson == JSONstringify(loop.changes)
  IN IF ~HasKey(results, Name_changes)
     THEN [outputs |-> loop.outputs \o <<Output(Name_changes, JsString(changesJson))>>,
           log |-> <<Log("info", "Results:", <<>>)>> \o loop.log
                   \o <<Log("info", "Changes output set to", changesJson)>>]
     ELSE [outputs |-> loop.outputs,
           log |-> <<Log("info", "Results:", <<>>)>> \o loop.log
                   \o <<Log("info", "Cannot set changes output variable - name already used by filter output", <<>>)>>]

DefaultFetchDepth == 10

\* the `filters` input: where the YAML comes from and the document in it
FiltersInput(source, doc) == [source |-> source, doc |-> doc]

\* main.ts:23-24, 42-56  core.getInput('filters', {required: true}) and
\* getConfigFileContent: the error thrown, NoError when the YAML is read
readFilters(filtersInput) ==
  CASE filtersInput.source = "not supplied" -> Error("Input required and not supplied: filters")
    [] filtersInput.source = "missing file" -> Error("Configuration file not found")
    [] filtersInput.source = "directory" -> Error("is not a file.")
    [] OTHER -> NoError

\* error.message
MessageOf(e) == [prefix |-> e.prefix, detail |-> e.detail, arg |-> e.arg]
NoMessage == MessageOf(NoError)

\* what a call of a function of main.ts did
MainCall(op, input, error, failed, calls, matched, results, outputs, log) ==
  [op |-> op, input |-> input, error |-> error, failed |-> failed, calls |-> calls,
   matched |-> matched, results |-> results, outputs |-> outputs, log |-> log]

NoMainCall == MainCall("none", <<>>, NoError, NoMessage, <<>>, FALSE, <<>>, <<>>, <<>>)

Failed(input, message, calls, log) ==
  MainCall("run", input, NoError, message, calls, FALSE, <<>>, <<>>, log)

\* run that goes on with the rules loaded before load threw
run_IgnoringLoadError(input) ==
  LET lowered == toLowerCase(input.listFiles)
      listFiles == IF lowered # <<>> THEN lowered ELSE FormatNone
      initialFetchDepth == IF input.initialFetchDepth # 0 THEN input.initialFetchDepth ELSE DefaultFetchDepth
      read == readFilters(input.filters)
      \* new Filter(filtersYaml): an empty text is not loaded
      constructed == IF input.filters.doc = NoDoc THEN [error |-> NoError, rules |-> <<>>]
                     ELSE load(<<>>, input.filters.doc, <<>>)
      changed == getChangedFiles(input.token, input.base, initialFetchDepth, input.context, input.currentRef)
      results == match(constructed.rules, input.detected.files).result
      exported == exportResults(results, listFiles)
  IN IF read # NoError THEN Failed(input, MessageOf(read), <<>>, <<>>)
     ELSE IF ~isExportFormat(listFiles)
     THEN Failed(input, [prefix |-> "", detail |-> "Input parameter 'list-files' is set to invalid value",
                         arg |-> listFiles], <<>>, <<>>)
     ELSE IF changed.error # NoError THEN Failed(input, MessageOf(changed.error), changed.calls, changed.log)
     ELSE IF ~input.detected.ok
     THEN Failed(input, MessageOf(Error("change detection failed")), changed.calls, changed.log)
     ELSE MainCall("run", input, NoError, NoMessage, changed.calls, TRUE, results,
                   exported.outputs, changed.log \o exported.log)

\* main.ts:14-40  input: the inputs of the action, the event, and what the
\* outside answers (the current ref, the files the detection routine returns
\* or its failure)
run(input) ==
  LET lowered == toLowerCase(input.listFiles)
      listFiles == IF lowered # <<>> THEN lowered ELSE FormatNone
      initialFetchDepth == IF input.initialFetchDepth # 0 THEN input.initialFetchDepth ELSE DefaultFetchDepth
      read == readFilters(input.filters)
      \* new Filter(filtersYaml): an empty text is not loaded
      constructed == IF input.filters.doc = NoDoc THEN [error |-> NoError, rules |-> <<>>]
                     ELSE load(<<>>, input.filters.doc, <<>>)
      changed == getChangedFiles(input.token, input.base, initialFetchDepth, input.context, input.currentRef)
      results == match(constructed.rules, input.detected.files).result
      exported == exportResults(results, listFiles)
  IN IF read # NoError THEN Failed(input, MessageOf(read), <<>>, <<>>)
     ELSE IF ~isExportFormat(listFiles)
     THEN Failed(input, [prefix |-> "", detail |-> "Input parameter 'list-files' is set to invalid value",
                         arg |-> listFiles], <<>>, <<>>)
     ELSE IF constructed.error # NoError THEN Failed(input, MessageOf(constructed.error), <<>>, <<>>)
     ELSE IF changed.error # NoError THEN Failed(input, MessageOf(changed.error), changed.calls, changed.log)
     ELSE IF ~input.detected.ok
     THEN Failed(input, MessageOf(Error("change detection failed")), changed.calls, changed.log)
     ELSE MainCall("run", input, NoError, NoMessage, changed.calls, TRUE, results,
                   exported.outputs, changed.log \o exported.log)

(***************************************************************************)
(* Inputs of the functions of main.ts                                      *)
(***************************************************************************)
MaxRules == 2       \* most rules in a result table given to exportResults

Main == <<"m", "a", "i", "n">>
Dev == <<"d", "e", "v">>
SomeSha == [i \in 1..ShaLength |-> IF i % 2 = 0 THEN "a" ELSE "1"]

Bases == {<<>>, HEAD, Main, RefsHeads \o Main, Dev, SomeSha, NULL_SHA}

EventNames == {"push", "pull_request", "pull_request_target", "workflow_dispatch"}

Contexts ==
  {Context(e, r, d, b) :
     e \in EventNames,
     r \in {<<>>, RefsHeads \o Main, RefsHeads \o Dev, RefsTags \o <<"v", "1">>},
     d \in {<<>>, Main},
     b \in {<<>>, NULL_SHA, SomeSha}}

Tokens == {"", "token"}
CurrentRefs == {Dev, SomeSha}
FetchDepths == {10, 100}

ExportFormats == {FormatNone, FormatCsv, FormatJson, FormatShell, FormatEscape}

\* the names of the rules of a result table
ResultKeys == {<<"a">>, <<"1">>, Name_changes, <<"a">> \o Suffix_count}

ResultLists ==
  {<<>>, <<File(<<"src", "a.js">>, Added)>>,
   <<File(<<"src", "a.js">>, Modified), File(<<"doc", "b.md">>, Modified)>>}

\* the table match builds when it meets the rules in the order of entries
RECURSIVE TableOf(_)
TableOf(entries) ==
  IF entries = <<>> THEN <<>>
  ELSE LET n == Len(entries)
       IN SetProp(TableOf(SubSeq(entries, 1, n - 1)), entries[n].key, entries[n].value)

ResultTables ==
  {TableOf(s) :
     s \in {t \in SeqsUpTo([key : ResultKeys, value : ResultLists], MaxRules) :
              \A i, j \in 1..Len(t) : i # j => t[i].key # t[j].key}}

\* the inputs of run
RunDocs ==
  {MapNode(<<Entry(<<"a">>, StrNode(SrcGlob))>>),
   MapNode(<<Entry(<<"b">>, StrNode(AnyGlob)), Entry(<<"a">>, StrNode(DocGlob))>>),
   MapNode(<<Entry(<<"b">>, StrNode(AnyGlob)), Entry(<<"1">>, StrNode(SrcGlob))>>),
   MapNode(<<Entry(Name_changes, StrNode(SrcGlob)), Entry(<<"a">>, StrNode(AnyGlob))>>),
   MapNode(<<Entry(<<"a">>, StrNode(AnyGlob)), Entry(<<"b">>, NumNode)>>),
   MapNode(<<Entry(<<"a">>, SeqNode(<<StatusMap(Key_bogus, StrNode(AnyGlob))>>))>>),
   MapNode(<<>>),
   NumNode}

RunFilters ==
  {FiltersInput("inline", doc) : doc \in RunDocs}
  \cup {FiltersInput("file", MapNode(<<Entry(<<"a">>, StrNode(SrcGlob))>>)), FiltersInput("file", NoDoc),
        FiltersInput("missing file", NoDoc), FiltersInput("directory", NoDoc),
        FiltersInput("not supplied", NoDoc)}

ListFilesInputs == {<<>>, FormatNone, FormatJson, <<"J", "S", "O", "N">>, FormatCsv, <<"x", "m", "l">>}

RunContexts ==
  {Context("push", RefsHeads \o Main, Main, SomeSha), Context("push", RefsHeads \o Dev, Main, NULL_SHA),
   Context("pull_request", RefsHeads \o Dev, Main, <<>>), Context("workflow_dispatch", <<>>, <<>>, <<>>)}

Detected == {[ok |-> TRUE, files |-> fs] : fs \in FileLists} \cup {[ok |-> FALSE, files |-> <<>>]}

RunInputs ==
  [filters : RunFilters, listFiles : ListFilesInputs, initialFetchDepth : {0, 100}, token : Tokens,
   base : {<<>>, HEAD}, context : RunContexts, currentRef : {Dev}, detected : Detected]

\* the repository the git commands of getChangesSinceMergeBase see, and the state of a call
Repo(commits, total, mergeBaseAt, base, head) ==
  [commits |-> commits, total |-> total, mergeBaseAt |-> mergeBaseAt, base |-> base, head |-> head,
   fetched |-> FALSE, tagged |-> FALSE]

NoRepo == Repo(0, 0, 0, "missing", "missing")

NoSearch ==
  [pc |-> "idle", initialFetchDepth |-> 0, repo |-> NoRepo, baseRef |-> FALSE, headRef |-> FALSE,
   depth |-> 0, lastCommitCount |-> 0, noMergeBase |-> FALSE, fetches |-> <<>>, warning |-> FALSE,
   diffArg |-> "", error |-> NoError]

(***************************************************************************)
(* Initial state; the constructor and the methods of Filter                *)
(***************************************************************************)
Init ==
  /\ phase = "start"
  /\ filter = NoFilter
  /\ last = Call("none", NoDoc, <<>>, <<>>, NoError, <<>>, <<>>, <<>>)
  /\ main = NoMainCall
  /\ search = NoSearch

\* filter.ts:37-41  new Filter(yaml, globalIgnoreArray) with a non-empty yaml:
\* when load throws, the constructor throws and no Filter object exists
Construct(doc, g) ==
  /\ phase = "start"
  /\ LET r == load(<<>>, doc, g)
     IN /\ filter' = IF r.error = NoError THEN [exists |-> TRUE, rules |-> r.rules] ELSE NoFilter
        /\ phase' = IF r.error = NoError THEN "ready" ELSE "failed"
        /\ last' = Call("new", doc, g, <<>>, r.error, <<>>, <<>>, <<>>)
        /\ UNCHANGED <<main, search>>

\* filter.ts:37-41  new Filter(): no yaml, nothing is loaded
ConstructEmpty ==
  /\ phase = "start"
  /\ filter' = [exists |-> TRUE, rules |-> <<>>]
  /\ phase' = "empty"
  /\ last' = Call("new", NoDoc, <<>>, <<>>, NoError, <<>>, <<>>, <<>>)
  /\ UNCHANGED <<main, search>>

\* filter.ts:44  filter.load(yaml, globalIgnoreArray) called on the Filter object
Load(doc, g) ==
  /\ phase = "empty"
  /\ filter.exists
  /\ LET r == load(filter.rules, doc, g)
     IN /\ filter' = [exists |-> TRUE, rules |-> r.rules]
        /\ phase' = "ready"
        /\ last' = Call("load", doc, g, filter.rules, r.error, <<>>, <<>>, <<>>)
        /\ UNCHANGED <<main, search>>

\* filter.ts:64  filter.match(files)
Match(files) ==
  /\ phase = "ready"
  /\ filter.exists
  /\ LET r == match(filter.rules, files)
     IN /\ filter' = [exists |-> TRUE, rules |-> r.rules]
        /\ phase' = phase
        /\ last' = Call("match", NoDoc, <<>>, filter.rules, NoError, files, r.files, r.result)
        /\ UNCHANGED <<main, search>>

Next ==
  \/ \E doc \in Docs, g \in GlobalIgnoreArrays : Construct(doc, g)
  \/ ConstructEmpty
  \/ \E doc \in Docs, g \in GlobalIgnoreArrays : Load(doc, g)
  \/ \E files \in FileLists : Match(files)

Spec == Init /\ [][Next]_vars

TypeOK ==
  /\ phase \in {"start", "empty", "ready", "failed"}
  /\ filter.exists \in BOOLEAN
  /\ last.op \in {"none", "new", "load", "match"}
  /\ main.op \in {"none", "exportResults", "getChangedFiles", "getChangedFilesFromGit", "run",
                "parseGitDiffNameStatusOutput", "getGitDiffStatusNumstat",
                "getChangedFilesFromApi", "csvEscape", "shellEscape",
                "parseFilesInput"}
  /\ search.pc \in {"idle", "fetch", "tags", "loop", "full", "diff", "done"}

(***************************************************************************)
(* The functions of main.ts, each called on its own                        *)
(***************************************************************************)
\* main.ts:177  exportResults(results, format)
ExportResults(results, format) ==
  /\ LET r == exportResults(results, format)
     IN main' = MainCall("exportResults", [results |-> results, format |-> format], NoError, NoMessage,
                         <<>>, FALSE, results, r.outputs, r.log)
  /\ UNCHANGED <<phase, filter, last, search>>

\* main.ts:58  getChangedFiles(token, base, initialFetchDepth)
GetChangedFiles(token, base, initialFetchDepth, context, currentRef) ==
  /\ LET r == getChangedFiles(token, base, initialFetchDepth, context, currentRef)
     IN main' = MainCall("getChangedFiles",
                         [token |-> token, base |-> base, initialFetchDepth |-> initialFetchDepth,
                          context |-> context, currentRef |-> currentRef],
                         r.error, NoMessage, r.calls, FALSE, <<>>, <<>>, r.log)
  /\ UNCHANGED <<phase, filter, last, search>>

\* main.ts:77  getChangedFilesFromGit(base, initialFetchDepth)
GetChangedFilesFromGit(base, initialFetchDepth, context, currentRef) ==
  /\ LET r == getChangedFilesFromGit(base, initialFetchDepth, context, currentRef)
     IN main' = MainCall("getChangedFilesFromGit",
                         [token |-> "", base |-> base, initialFetchDepth |-> initialFetchDepth,
                          context |-> context, currentRef |-> currentRef],
                         r.error, NoMessage, r.calls, FALSE, <<>>, <<>>, r.log)
  /\ UNCHANGED <<phase, filter, last, search>>

\* main.ts:14  run()
Run(input) ==
  /\ main' = run(input)
  /\ UNCHANGED <<phase, filter, last, search>>

\* one function is called, once, in a process that has called none yet
Fresh == main.op = "none"

NextMain ==
  \/ Fresh /\ \E results \in ResultTables, format \in ExportFormats : ExportResults(results, format)
  \/ Fresh /\ \E token \in Tokens, base \in Bases, depth \in FetchDepths, context \in Contexts,
                 currentRef \in CurrentRefs :
                GetChangedFiles(token, base, depth, context, currentRef)
  \/ Fresh /\ \E base \in Bases, depth \in FetchDepths, context \in Contexts, currentRef \in CurrentRefs :
                GetChangedFilesFromGit(base, depth, context, currentRef)
  \/ Fresh /\ \E input \in RunInputs : Run(input)

SpecMain == Init /\ [][NextMain]_vars

(***************************************************************************)
(* src/src/git.ts: getChangesSinceMergeBase, one step per git command      *)
(*                                                                         *)
(* The repository is what the git commands see: the number of commits in   *)
(* the local clone (git rev-list --count --all), the number of commits the *)
(* remote can give (a finite history), the number of local commits from    *)
(* which `git merge-base` succeeds (more than the history has: never), and *)
(* for each of base and head when `getLocalRef` starts to resolve it.      *)
(***************************************************************************)
MaxHistory == 5
SafeIntegerBits == 4

\* git.ts:83  Number.MAX_SAFE_INTEGER (2^53 - 1), here on SafeIntegerBits bits
MAX_SAFE_INTEGER == 2^SafeIntegerBits - 1

Min(a, b) == IF a < b THEN a ELSE b

Max(a, b) == IF a > b THEN a ELSE b

RefStages == {"local", "fetched", "tagged", "missing"}

\* git.ts:231-253  getLocalRef(shortName): the ref, or undefined (FALSE) when the clone has none
getLocalRef(repo, stage) ==
  \/ stage = "local"
  \/ stage = "fetched" /\ repo.fetched
  \/ stage = "tagged" /\ repo.tagged

\* git.ts:48  git merge-base <baseRef> <headRef> exits with 0
GitMergeBase(repo) ==
  /\ getLocalRef(repo, repo.base)
  /\ getLocalRef(repo, repo.head)
  /\ repo.commits >= repo.mergeBaseAt

\* git.ts:225-229  getCommitCount()
getCommitCount(repo) == repo.commits

\* git.ts:57  git fetch --no-tags --depth=<n> origin base head
GitFetchDepth(repo, n) ==
  {[repo EXCEPT !.commits = c, !.fetched = TRUE] : c \in repo.commits .. Max(repo.commits, Min(repo.total, n))}

\* git.ts:62-64  git fetch --tags --depth=1 origin base head
GitFetchTags(repo) == {[repo EXCEPT !.tagged = TRUE]}

\* git.ts:84  git fetch --deepen=<n> origin base head
GitFetchDeepen(repo, n) ==
  {[repo EXCEPT !.commits = c] : c \in repo.commits .. Min(repo.total, repo.commits + n)}

\* git.ts:89  git fetch
GitFetchAll(repo) == {[repo EXCEPT !.commits = c] : c \in repo.commits .. repo.total}

Fetch(kind, depth, before, after, mergeBase) ==
  [kind |-> kind, depth |-> depth, before |-> before, after |-> after, mergeBase |-> mergeBase]

\* git.ts:44-49  hasMergeBase()
hasMergeBase(s) == s.baseRef /\ s.headRef /\ GitMergeBase(s.repo)

\* git.ts:41-56  the call: both refs are looked up, and a merge base found at once skips the search
SearchStart(repo, initialFetchDepth) ==
  /\ search.pc = "idle"
  /\ LET s == [search EXCEPT !.initialFetchDepth = initialFetchDepth, !.repo = repo,
                             !.baseRef = getLocalRef(repo, repo.base),
                             !.headRef = getLocalRef(repo, repo.head)]
     IN search' = [s EXCEPT !.pc = IF hasMergeBase(s) THEN "diff" ELSE "fetch"]
  /\ UNCHANGED <<phase, filter, last, main>>

\* git.ts:57-61, 80-81  the first fetch, --depth=initialFetchDepth; refs still undefined are
\* looked up again; with both known, depth and lastCommitCount are set for the loop
SearchFetch ==
  /\ search.pc = "fetch"
  /\ \E repo \in GitFetchDepth(search.repo, search.initialFetchDepth) :
       LET s == [search EXCEPT
                   !.repo = repo,
                   !.fetches = Append(@, Fetch("depth", search.initialFetchDepth,
                                               getCommitCount(search.repo), getCommitCount(repo),
                                               GitMergeBase(search.repo))),
                   !.baseRef = @ \/ getLocalRef(repo, repo.base),
                   !.headRef = @ \/ getLocalRef(repo, repo.head)]
       IN search' = IF s.baseRef /\ s.headRef
                    THEN [s EXCEPT !.pc = "loop", !.depth = search.initialFetchDepth,
                                   !.lastCommitCount = getCommitCount(repo)]
                    ELSE [s EXCEPT !.pc = "tags"]
  /\ UNCHANGED <<phase, filter, last, main>>

\* git.ts:62-76, 80-81  the fetch of the tags and the last lookup of the refs: a ref still
\* undefined makes the call throw
SearchFetchTags ==
  /\ search.pc = "tags"
  /\ \E repo \in GitFetchTags(search.repo) :
       LET s == [search EXCEPT
                   !.repo = repo,
                   !.fetches = Append(@, Fetch("tags", 1, getCommitCount(search.repo),
                                               getCommitCount(repo), GitMergeBase(search.repo))),
                   !.baseRef = @ \/ getLocalRef(repo, repo.base),
                   !.headRef = @ \/ getLocalRef(repo, repo.head)]
       IN search' = IF ~s.baseRef
                    THEN [s EXCEPT !.pc = "done", !.error = Error("Could not determine what is base")]
                    ELSE IF ~s.headRef
                    THEN [s EXCEPT !.pc = "done", !.error = Error("Could not determine what is head")]
                    ELSE [s EXCEPT !.pc = "loop", !.depth = search.initialFetchDepth,
                                   !.lastCommitCount = getCommitCount(repo)]
  /\ UNCHANGED <<phase, filter, last, main>>

\* git.ts:82  the loop condition finds a merge base: the search is over
SearchFound ==
  /\ search.pc = "loop"
  /\ hasMergeBase(search)
  /\ search' = [search EXCEPT !.pc = "diff"]
  /\ UNCHANGED <<phase, filter, last, main>>

SearchDeepen_SameDepth ==
  /\ search.pc = "loop"
  /\ ~hasMergeBase(search)
  /\ LET depth == search.depth
     IN \E repo \in GitFetchDeepen(search.repo, depth) :
          LET commitCount == getCommitCount(repo)
              s == [search EXCEPT
                      !.repo = repo, !.depth = depth,
                      !.fetches = Append(@, Fetch("deepen", depth, getCommitCount(search.repo),
                                                  commitCount, GitMergeBase(search.repo)))]
          IN search' = IF commitCount = search.lastCommitCount
                       THEN [s EXCEPT !.pc = "full"]
                       ELSE [s EXCEPT !.lastCommitCount = commitCount]
  /\ UNCHANGED <<phase, filter, last, main>>

\* git.ts:82-86, 95  one round of the loop without a merge base: the depth is doubled, the
\* history deepened by it and the commits counted; an unchanged count ends the loop
SearchDeepen ==
  /\ search.pc = "loop"
  /\ ~hasMergeBase(search)
  /\ LET depth == Min(search.depth * 2, MAX_SAFE_INTEGER)
     IN \E repo \in GitFetchDeepen(search.repo, depth) :
          LET commitCount == getCommitCount(repo)
              s == [search EXCEPT
                      !.repo = repo, !.depth = depth,
                      !.fetches = Append(@, Fetch("deepen", depth, getCommitCount(search.repo),
                                                  commitCount, GitMergeBase(search.repo)))]
          IN search' = IF commitCount = search.lastCommitCount
                       THEN [s EXCEPT !.pc = "full"]
                       ELSE [s EXCEPT !.lastCommitCount = commitCount]
  /\ UNCHANGED <<phase, filter, last, main>>

SearchFetchAll_GivingUp ==
  /\ search.pc = "full"
  /\ \E repo \in GitFetchAll(search.repo) :
       LET s == [search EXCEPT
                   !.repo = repo,
                   !.fetches = Append(@, Fetch("all", 0, getCommitCount(search.repo),
                                               getCommitCount(repo), GitMergeBase(search.repo)))]
       IN search' = [s EXCEPT !.pc = "diff", !.noMergeBase = TRUE]
  /\ UNCHANGED <<phase, filter, last, main>>

\* git.ts:87-94  the last attempt: the full history is fetched, and noMergeBase is set
\* when there is still no merge base
SearchFetchAll ==
  /\ search.pc = "full"
  /\ \E repo \in GitFetchAll(search.repo) :
       LET s == [search EXCEPT
                   !.repo = repo,
                   !.fetches = Append(@, Fetch("all", 0, getCommitCount(search.repo),
                                               getCommitCount(repo), GitMergeBase(search.repo)))]
       IN search' = [s EXCEPT !.pc = "diff", !.noMergeBase = ~hasMergeBase(s)]
  /\ UNCHANGED <<phase, filter, last, main>>

\* git.ts:102-110  the diff argument: three dots, or two dots after a warning
SearchDiff ==
  /\ search.pc = "diff"
  /\ search' = [search EXCEPT !.pc = "done",
                              !.warning = search.noMergeBase,
                              !.diffArg = IF search.noMergeBase THEN ".." ELSE "..."]
  /\ UNCHANGED <<phase, filter, last, main>>

InitialFetchDepths == {1, 2, 10}

RefStagePairs ==
  {<<"local", "local">>, <<"fetched", "local">>, <<"local", "fetched">>, <<"tagged", "local">>,
   <<"fetched", "tagged">>, <<"missing", "local">>, <<"local", "missing">>}

Repos ==
  {Repo(commits, total, mergeBaseAt, r[1], r[2]) :
     commits \in 1 .. MaxHistory, total \in 1 .. MaxHistory,
     mergeBaseAt \in 1 .. MaxHistory + 1, r \in RefStagePairs}

SearchStep ==
  \/ SearchFetch
  \/ SearchFetchTags
  \/ SearchFound
  \/ SearchDeepen
  \/ SearchFetchAll
  \/ SearchDiff

NextSearch ==
  \/ search.pc = "idle" /\ \E repo \in Repos, depth \in InitialFetchDepths :
       repo.commits <= repo.total /\ repo.mergeBaseAt <= repo.total + 1 /\ SearchStart(repo, depth)
  \/ SearchStep

SpecSearch == Init /\ [][NextSearch]_vars

\* every git command returns, and the function goes on after it
FairSearch == SpecSearch /\ WF_vars(SearchStep)

(***************************************************************************)
(* src/src/git.ts: the parsers of the output of git diff                   *)
(*                                                                         *)
(* A text is a sequence of characters; NUL is the character U+0000.        *)
(***************************************************************************)
MaxPairs == 2

NUL == "NUL"

\* the status of a record is a JavaScript value: a text, or undefined
FileStatus(status, filename) == [status |-> status, filename |-> filename]

\* git.ts:284-291  statusMap[token]
statusMap(token) ==
  IF token = <<"A">> THEN JsString(Added)
  ELSE IF token = <<"C">> THEN JsString(Copied)
  ELSE IF token = <<"D">> THEN JsString(Deleted)
  ELSE IF token = <<"M">> THEN JsString(Modified)
  ELSE IF token = <<"R">> THEN JsString(Renamed)
  ELSE IF token = <<"U">> THEN JsString(Unmerged)
  ELSE UndefinedNode

NonEmpty(s) == Len(s) > 0

\* git.ts:136-141  for (let i = 0; i + 1 < tokens.length; i += 2)
RECURSIVE NameStatusLoop(_, _, _)
NameStatusLoop(tokens, i, files) ==
  IF i + 1 < Len(tokens)
  THEN NameStatusLoop(tokens, i + 2, Append(files, FileStatus(statusMap(tokens[i + 1]), tokens[i + 2])))
  ELSE files

parseGitDiffNameStatusOutput_KeepingEmpty(output) == NameStatusLoop(split(output, NUL), 0, <<>>)

\* git.ts:133-143
parseGitDiffNameStatusOutput(output) ==
  NameStatusLoop(SelectSeq(split(output, NUL), NonEmpty), 0, <<>>)

\* a function of git.ts or of list-format, called on its own
LibCall(op, input, error, results) ==
  MainCall(op, input, error, NoMessage, <<>>, FALSE, results, <<>>, <<>>)

(***************************************************************************)
(* src/src/git.ts: mergeStatusNumstat and getGitDiffStatusNumstat          *)
(***************************************************************************)
FileNumstat(filename, additions, deletions) ==
  [filename |-> filename, additions |-> additions, deletions |-> deletions]

MergedFile(f, status) ==
  [filename |-> f.filename, additions |-> f.additions, deletions |-> f.deletions, status |-> status]

\* git.ts:146-147, 150  statusMap[f.filename]: the entry stored last under the name
HasStatusEntry(statusEntries, filename) ==
  \E i \in 1 .. Len(statusEntries) : statusEntries[i].filename = filename

LookupStatus(statusEntries, filename) ==
  statusEntries[CHOOSE i \in 1 .. Len(statusEntries) :
                  /\ statusEntries[i].filename = filename
                  /\ \A j \in (i + 1) .. Len(statusEntries) : statusEntries[j].filename # filename]

\* git.ts:145-156
mergeStatusNumstat(statusEntries, numstatEntries) ==
  IF \E i \in 1 .. Len(numstatEntries) : ~HasStatusEntry(statusEntries, numstatEntries[i].filename)
  THEN LET i == CHOOSE k \in 1 .. Len(numstatEntries) :
                  /\ ~HasStatusEntry(statusEntries, numstatEntries[k].filename)
                  /\ \A j \in 1 .. (k - 1) : HasStatusEntry(statusEntries, numstatEntries[j].filename)
       IN [error |-> [Error("Cannot find the status entry for file: ") EXCEPT !.arg = numstatEntries[i].filename],
           files |-> <<>>]
  ELSE [error |-> NoError,
        files |-> [i \in 1 .. Len(numstatEntries) |->
                     MergedFile(numstatEntries[i],
                                LookupStatus(statusEntries, numstatEntries[i].filename).status)]]

(***************************************************************************)
(* Inputs of the parsers: what git diff --name-status -z prints            *)
(***************************************************************************)
StatusLetters == {"A", "C", "D", "M", "R", "U"}

\* T: the type of the file changed (git diff --name-status prints it also with --no-renames)
OtherLetters == {"T"}

GitNames == {<<"f">>, <<"M">>, <<"a", " ", "b">>}

StatusPairs == [letter : StatusLetters \cup OtherLetters, filename : GitNames]

StatusPairLists == SeqsUpTo(StatusPairs, MaxPairs)

\* extra NUL characters (before the first pair, after every pair) and a last token without a pair
Layouts == [leading : BOOLEAN, doubled : BOOLEAN, trailing : {<<>>, <<"x">>}]

RECURSIVE RenderPairs(_, _)
RenderPairs(pairs, doubled) ==
  IF pairs = <<>> THEN <<>>
  ELSE <<Head(pairs).letter, NUL>> \o Head(pairs).filename \o <<NUL>>
       \o (IF doubled THEN <<NUL>> ELSE <<>>) \o RenderPairs(Tail(pairs), doubled)

NameStatusOutput(pairs, layout) ==
  (IF layout.leading THEN <<NUL>> ELSE <<>>) \o RenderPairs(pairs, layout.doubled) \o layout.trailing

\* what git diff --numstat -z gives after parseGitDiffNumstatOutput
NumstatLists == SeqsUpTo({FileNumstat(f, 1, 0) : f \in GitNames}, MaxPairs)

MergePairLists == SeqsUpTo([letter : {"A", "M"} \cup OtherLetters, filename : GitNames], MaxPairs)

\* git.ts:158-162  getGitDiffStatusNumstat, on the outputs of the two git commands
GetGitDiffStatusNumstat(pairs, numstat) ==
  LET statusFiles == parseGitDiffNameStatusOutput(RenderPairs(pairs, FALSE))
      merged == mergeStatusNumstat(statusFiles, numstat)
  IN /\ main' = LibCall("getGitDiffStatusNumstat",
                        [pairs |-> pairs, statusFiles |-> statusFiles, numstat |-> numstat],
                        merged.error, merged.files)
     /\ UNCHANGED <<phase, filter, last, search>>

(***************************************************************************)
(* src/unnamed/part_011 (main.ts): getChangedFilesFromApi                  *)
(*                                                                         *)
(* The server is the list of the responses of pulls.listFiles to the pages *)
(* 1, 2, ...; a page after the last one of the list has no rows.           *)
(***************************************************************************)
MaxPages == 3

Removed == <<"r", "e", "m", "o", "v", "e", "d">>

ApiRow(status, filename, previous_filename) ==
  [status |-> status, filename |-> filename, previous_filename |-> previous_filename]

Response(status, data) == [status |-> status, data |-> data]

\* part_011:198  client.rest.pulls.listFiles({..., per_page, page})
listFiles(server, page) == IF page <= Len(server) THEN server[page] ELSE Response(200, <<>>)

RowFiles_KeepingRemoved(row) ==
  IF row.status = Renamed
  THEN <<File(row.filename, Added), File(row.previous_filename, Deleted)>>
  ELSE <<File(row.filename, row.status)>>

\* part_011:211-233  the records pushed for one row
RowFiles(row) ==
  IF row.status = Renamed
  THEN <<File(row.filename, Added), File(row.previous_filename, Deleted)>>
  ELSE LET status == IF row.status = Removed THEN Deleted ELSE row.status
       IN <<File(row.filename, status)>>

\* part_011:211, 234  for (const row of response.data)
RECURSIVE PageFiles(_)
PageFiles(data) == IF data = <<>> THEN <<>> ELSE RowFiles(Head(data)) \o PageFiles(Tail(data))

ResponseFailed_Never(response) == FALSE

\* part_011:201  response.status !== 200
ResponseFailed(response) == response.status # 200

\* part_011:191-235  for (let page = 1; ; page++): requests is the list of the pages asked for
RECURSIVE ApiLoop(_, _, _, _)
ApiLoop(server, page, files, requests) ==
  LET response == listFiles(server, page)
      asked == Append(requests, page)
  IN IF ResponseFailed(response)
     THEN [error |-> [Error("Fetching list of changed files from GitHub API failed with error code ")
                        EXCEPT !.arg = <<response.status>>],
           files |-> <<>>, requests |-> asked]
     ELSE IF Len(response.data) = 0
     THEN [error |-> NoError, files |-> files, requests |-> asked]
     ELSE ApiLoop(server, page + 1, files \o PageFiles(response.data), asked)

\* part_011:184-241  getChangedFilesFromApi(token, prNumber): of the pull request of the
\* payload (part_011:92-93 passes pr.number) the number is used, for the log lines only
getChangedFilesFromApi(pr, server) == ApiLoop(server, 1, <<>>, <<>>)

ApiPages ==
  {<<>>, <<ApiRow(Modified, <<"m">>, <<>>)>>,
   <<ApiRow(Renamed, <<"n">>, <<"o">>), ApiRow(Removed, <<"d">>, <<>>)>>,
   <<ApiRow(Added, <<"a">>, <<>>), ApiRow(Renamed, <<"n">>, <<"o">>)>>}

Responses == {Response(200, data) : data \in ApiPages} \cup {Response(500, <<>>), Response(500, <<ApiRow(Modified, <<"m">>, <<>>)>>)}

Servers == SeqsUpTo(Responses, MaxPages)

\* the pull request of the payload: its number and the count of changed files it declares
PullRequests == [number : {7}, changed_files : {0, 1, 250}]

GetChangedFilesFromApi(pr, server) ==
  LET r == getChangedFilesFromApi(pr, server)
  IN /\ main' = MainCall("getChangedFilesFromApi", [pr |-> pr, server |-> server], r.error,
                         NoMessage, r.requests, FALSE, r.files, <<>>, <<>>)
     /\ UNCHANGED <<phase, filter, last, search>>

(***************************************************************************)
(* src/src/list-format/csv-escape.ts and shell-escape.ts (the latter is    *)
(* src/unnamed/part_013:119-146): texts are sequences of characters        *)
(***************************************************************************)
MaxValueLen == 3

\* the characters of the values: a letter, a comma, a space, a dollar sign, the
\* two quotes and a line feed
ValueChars == {"a", ",", " ", "$", "'", "\"", "\n"}

\* [a-zA-Z0-9._+:@%/-] in csv-escape.ts:7, on the characters of the model
CsvSafe == {"a"}

\* [a-zA-Z0-9,._+:@%/-] in part_013:131
ShellSafe == {"a", ","}

\* [a-zA-Z0-9,._+:@%/'\s-] in part_013:137
ShellSafeQuoteSpace == {"a", ",", "'", " ", "\n"}

\* a line terminator of a regular expression
IsLineTerminator(c) == c = "\n"

\* /^[class]+$/m.test(value): with the flag m, ^ also matches after a line terminator
\* and $ before one, so that a part of the value from the start of a line to the end
\* of a line is enough
OnlySafe(value, class) ==
  \E i, j \in 1 .. Len(value) :
    /\ i <= j
    /\ i = 1 \/ IsLineTerminator(value[i - 1])
    /\ j = Len(value) \/ IsLineTerminator(value[j + 1])
    /\ \A k \in i .. j : value[k] \in class

\* value.replace(/"/g, '""')
RECURSIVE DoubleQuotes(_)
DoubleQuotes(value) ==
  IF value = <<>> THEN <<>>
  ELSE (IF Head(value) = "\"" THEN <<"\"", "\"">> ELSE <<Head(value)>>) \o DoubleQuotes(Tail(value))

\* csv-escape.ts:3-16
csvEscape(value) ==
  IF value = <<>> THEN value
  ELSE IF OnlySafe(value, CsvSafe) THEN value
  ELSE <<"\"">> \o DoubleQuotes(value) \o <<"\"">>

includes(value, c) == \E k \in 1 .. Len(value) : value[k] = c

\* parts.join(sep)
RECURSIVE join(_, _)
join(parts, sep) ==
  IF parts = <<>> THEN <<>>
  ELSE IF Len(parts) = 1 THEN parts[1]
  ELSE parts[1] \o sep \o join(Tail(parts), sep)

\* part_013:126-146
RECURSIVE shellEscape(_)
shellEscape(value) ==
  IF value = <<>> THEN value
  ELSE IF OnlySafe(value, ShellSafe) THEN value
  ELSE IF includes(value, "'")
  THEN IF OnlySafe(value, ShellSafeQuoteSpace)
       THEN <<"\"">> \o value \o <<"\"">>
       ELSE LET parts == split(value, "'")
            IN join([k \in 1 .. Len(parts) |-> shellEscape(parts[k])], <<"\\", "'">>)
  ELSE <<"'">> \o value \o <<"'">>

Values == SeqsUpTo(ValueChars, MaxValueLen)

CsvEscape(value) ==
  /\ main' = LibCall("csvEscape", [value |-> value], NoError, csvEscape(value))
  /\ UNCHANGED <<phase, filter, last, search>>

ShellEscape(value) ==
  /\ main' = LibCall("shellEscape", [value |-> value], NoError, shellEscape(value))
  /\ UNCHANGED <<phase, filter, last, search>>

(***************************************************************************)
(* src/unnamed/part_011 (main.ts): parseFilesInput                         *)
(***************************************************************************)
MaxLines == 3

IsWhitespace(c) == c \in {" ", "\t"}

\* line.split(/\s+/): the parts between the runs of whitespace, the empty ones too
RECURSIVE splitWhitespace(_)
splitWhitespace(s) ==
  IF \A i \in 1 .. Len(s) : ~IsWhitespace(s[i])
  THEN <<s>>
  ELSE LET i == CHOOSE j \in 1 .. Len(s) : IsWhitespace(s[j]) /\ \A h \in 1 .. (j - 1) : ~IsWhitespace(s[h])
           e == CHOOSE j \in i .. Len(s) :
                  /\ \A h \in i .. j : IsWhitespace(s[h])
                  /\ j = Len(s) \/ ~IsWhitespace(s[j + 1])
       IN <<SubSeq(s, 1, i - 1)>> \o splitWhitespace(SubSeq(s, e + 1, Len(s)))

\* part_011:50-66  for (let i = 0; i + 1 < customfiles.length; i += 1)
RECURSIVE FilesInputLoop(_, _, _)
FilesInputLoop(customfiles, i, files) ==
  IF i + 1 < Len(customfiles)
  THEN LET filearray == splitWhitespace(customfiles[i + 1])
       IN IF Len(filearray) = 1
          THEN FilesInputLoop(customfiles, i + 1,
                              Append(files, FileStatus(statusMap(<<"U">>), filearray[1])))
          ELSE IF Len(filearray) = 2
          THEN FilesInputLoop(customfiles, i + 1,
                              Append(files, FileStatus(statusMap(filearray[1]), filearray[2])))
          ELSE [error |-> [Error("Line in custom file is not parseable.") EXCEPT !.arg = <<i + 1>>],
                files |-> <<>>]
  ELSE [error |-> NoError, files |-> files]

\* part_011:48-68
parseFilesInput(customfiles) == FilesInputLoop(customfiles, 0, <<>>)

\* the lines of the `files` input: a name, a status and a name, three tokens, a status
\* that statusMap does not know, and the empty line after a line break at the end
InputLines ==
  {<<"f">>, <<"M", " ", "g">>, <<"A", " ", "\t", "f">>, <<"M", " ", "f", " ", "g">>, <<"X", " ", "f">>, <<>>}

\* part_011:27  customfiles.split(/\r?\n/): at least one line
LineLists == SeqsUpTo(InputLines, MaxLines) \ {<<>>}

ParseFilesInput(customfiles) ==
  LET r == parseFilesInput(customfiles)
  IN /\ main' = LibCall("parseFilesInput", [customfiles |-> customfiles], r.error, r.files)
     /\ UNCHANGED <<phase, filter, last, search>>

ParseGitDiffNameStatusOutput(pairs, layout) ==
  /\ main' = LibCall("parseGitDiffNameStatusOutput",
                     [pairs |-> pairs, layout |-> layout, output |-> NameStatusOutput(pairs, layout)],
                     NoError, parseGitDiffNameStatusOutput(NameStatusOutput(pairs, layout)))
  /\ UNCHANGED <<phase, filter, last, search>>

NextLib ==
  \/ Fresh /\ \E pairs \in StatusPairLists, layout \in Layouts : ParseGitDiffNameStatusOutput(pairs, layout)
  \/ Fresh /\ \E pairs \in MergePairLists, numstat \in NumstatLists : GetGitDiffStatusNumstat(pairs, numstat)
  \/ Fresh /\ \E pr \in PullRequests, server \in Servers : GetChangedFilesFromApi(pr, server)
  \/ Fresh /\ \E value \in Values : CsvEscape(value)
  \/ Fresh /\ \E value \in Values : ShellEscape(value)
  \/ Fresh /\ \E customfiles \in LineLists : ParseFilesInput(customfiles)

SpecLib == Init /\ [][NextLib]_vars

(***************************************************************************)
(* Properties                                                              *)
(***************************************************************************)
IsLoadCall == last.op \in {"new", "load"} /\ last.doc # NoDoc
IsMatchCall == last.op = "match"

\* the item admits the file: no status restriction or the file's status is
\* in the status set, and the pattern predicate matches the filename
Admits(item, file) ==
  /\ item.status.defined => file.status \in Range(item.status.values)
  /\ \E g \in Range(item.isMatch.globs) : Test(g, file.filename, item.isMatch.dot)
  /\ \A g \in Range(item.isMatch.ignore) : ~Test(g, file.filename, item.isMatch.dot)

\* the positions of the files that some item of the rule admits
Selected(items, files) == {n \in 1..Len(files) : \E item \in Range(items) : Admits(item, files[n])}

\* sub is the sub-sequence of files at the positions sel, in the order of files
IsSubSequenceAt(sub, files, sel) ==
  /\ Len(sub) = Cardinality(sel)
  /\ \A n \in sel : sub[Cardinality({m \in sel : m <= n})] = files[n]

\* C1: match returns, for each rule, exactly the files that at least one item
\* of the rule admits, in input order; an item without status admits files of
\* every status and a status-qualified item none outside its status set.
C1_MatchSelectsAdmittedFiles ==
  IsMatchCall =>
    /\ Len(last.result) = Len(filter.rules)
    /\ \A i \in 1..Len(filter.rules) :
         LET items == filter.rules[i].value
             matched == last.result[i].value
         IN /\ last.result[i].key = filter.rules[i].key
            /\ IsSubSequenceAt(matched, last.input, Selected(items, last.input))
            /\ \A item \in Range(items), f \in Range(last.input) :
                 (~item.status.defined /\ Matches(item.isMatch, f.filename)) => f \in Range(matched)
            /\ \A f \in Range(matched) :
                 \E item \in Range(items) :
                    item.status.defined => f.status \in Range(item.status.values)

\* a rule with a status-qualified item only: of two files with the same name
\* the one with the other status is left out, the later one is returned
C1_Witness ==
  /\ IsMatchCall
  /\ Len(last.input) = 2
  /\ last.input[1].filename = last.input[2].filename
  /\ \E i \in 1..Len(filter.rules) :
       /\ \A item \in Range(filter.rules[i].value) : item.status.defined
       /\ last.result[i].value = <<last.input[2]>>

\* C2: the result of match has exactly one key per rule of the rules table,
\* and a rule no file matches maps to the empty list.
C2_EveryRuleIsAKey ==
  IsMatchCall =>
    /\ Keys(last.result) = Keys(filter.rules)
    /\ \A i, j \in 1..Len(last.result) : last.result[i].key = last.result[j].key => i = j
    /\ \A i \in 1..Len(filter.rules) :
         Selected(filter.rules[i].value, last.input) = {} => last.result[i].value = <<>>

\* a rule that matches nothing next to a rule that matches a file
C2_Witness ==
  /\ IsMatchCall
  /\ Len(last.result) = 2
  /\ last.result[1].value = <<>>
  /\ last.result[2].value # <<>>

\* C3: load of a document that is not a mapping fails with an error whose
\* message begins with "Invalid filter".
C3_NonMappingRejected ==
  (IsLoadCall /\ last.doc.t # "map") => last.error.prefix = InvalidFilterPrefix

IsPathsMap(n) ==
  /\ n.t = "map"
  /\ Len(n.v) = 2
  /\ Truthy(Prop(n, Key_paths_ignore))
  /\ Truthy(Prop(n, Key_paths))

\* the value of a status-qualified mapping: a string or an array of strings
IsPatternValue(n) == n.t = "str" \/ isStringsArray(n)

\* the node holds, at some depth, a node that is no pattern string, sequence
\* or status-qualified mapping with a string / string-array value
RECURSIVE HasMalformedNode(_)
HasMalformedNode(n) ==
  CASE n.t = "str" -> FALSE
    [] n.t = "seq" -> \E i \in 1..Len(n.v) : HasMalformedNode(n.v[i])
    [] n.t = "map" -> ~(Len(n.v) = 1 /\ IsPatternValue(n.v[1].v))
    [] OTHER -> TRUE

\* the node holds no {paths, paths_ignore} mapping, a shape this code base
\* adds to the three of the rule format
RECURSIVE HasNoPathsMap(_)
HasNoPathsMap(n) ==
  CASE n.t = "seq" -> \A i \in 1..Len(n.v) : HasNoPathsMap(n.v[i])
    [] n.t = "map" -> ~IsPathsMap(n) /\ \A i \in 1..Len(n.v) : HasNoPathsMap(n.v[i].v)
    [] OTHER -> TRUE

\* C4: a rule value holding a malformed node at any depth makes load throw
\* an error whose message begins with "Invalid filter", and no other error.
C4_MalformedNodeIsInvalidFilter ==
  (/\ IsLoadCall
   /\ last.doc.t = "map"
   /\ \A i \in 1..Len(last.doc.v) : HasNoPathsMap(last.doc.v[i].v)
   /\ \E i \in 1..Len(last.doc.v) : HasMalformedNode(last.doc.v[i].v))
    => last.error.prefix = InvalidFilterPrefix

\* every token of the key is one of the six status names up to letter case
CaseInsensitiveStatusKey(key) ==
  /\ StatusTokens(key) # <<>>
  /\ \A token \in Range(StatusTokens(key)) : toLowerCase(token) \in Range(ChangeStatus)

LowerCaseTokens(key) == [i \in 1..Len(StatusTokens(key)) |-> toLowerCase(StatusTokens(key)[i])]

\* C5: a status key whose tokens are status names up to letter case is
\* accepted, and the item's status set holds the lower-case names.
C5_StatusTokensCaseInsensitive ==
  \A n \in RuleNames, key \in StatusKeys :
    (/\ IsLoadCall
     /\ last.doc = MapNode(<<Entry(n, SeqNode(<<StatusMap(key, StrNode(AnyGlob))>>))>>)
     /\ CaseInsensitiveStatusKey(key))
    => /\ last.error = NoError
       /\ Len(filter.rules) = 1
       /\ Len(filter.rules[1].value) = 1
       /\ filter.rules[1].value[1].status = StatusOf(LowerCaseTokens(key))

\* the status keys of the status-qualified entries of a rule value, in
\* document order
RECURSIVE StatusKeysOf(_)
RECURSIVE StatusKeysOfAll(_)
StatusKeysOfAll(nodes) ==
  IF nodes = <<>> THEN <<>> ELSE StatusKeysOf(Head(nodes)) \o StatusKeysOfAll(Tail(nodes))

StatusKeysOf(n) ==
  CASE n.t = "seq" -> StatusKeysOfAll(n.v)
    [] n.t = "map" ->
         IF IsPathsMap(n) THEN StatusKeysOf(Prop(n, Key_paths))
         ELSE IF Len(n.v) = 1 /\ IsPatternValue(n.v[1].v) THEN <<n.v[1].k>>
         ELSE <<>>
    [] OTHER -> <<>>

RECURSIVE TokensOfAll(_)
TokensOfAll(keys) ==
  IF keys = <<>> THEN <<>> ELSE StatusTokens(Head(keys)) \o TokensOfAll(Tail(keys))

\* the tokens of the rule value that are none of the six status names
BadTokens(n) == SelectSeq(TokensOfAll(StatusKeysOf(n)), LAMBDA token : token \notin Range(ChangeStatus))

\* the rule value has nothing wrong but, possibly, its status tokens
RECURSIVE WellFormedItem(_)
WellFormedItem(n) ==
  CASE n.t = "str" -> n.v # <<>>
    [] n.t = "seq" -> \A i \in 1..Len(n.v) : WellFormedItem(n.v[i])
    [] n.t = "map" ->
         IF IsPathsMap(n)
         THEN /\ isStringsArray(Prop(n, Key_paths_ignore))
              /\ \A i \in 1..Len(Prop(n, Key_paths_ignore).v) : ValidGlob(Prop(n, Key_paths_ignore).v[i])
              /\ WellFormedItem(Prop(n, Key_paths))
         ELSE /\ Len(n.v) = 1
              /\ IsPatternValue(n.v[1].v)
              /\ WellFormedItem(n.v[1].v)
    [] OTHER -> FALSE

WellFormedRule(n) == (n.t = "str" \/ n.t = "seq") /\ WellFormedItem(n)

\* the first rule of the document with a token that is no status name
FirstBadRule(doc) == CHOOSE i \in 1..Len(doc.v) : /\ BadTokens(doc.v[i].v) # <<>>
                                                   /\ \A j \in 1..(i - 1) : BadTokens(doc.v[j].v) = <<>>

C7_DirectStatusMapAccepted ==
  \A n \in RuleNames, key \in StatusKeys :
    (/\ IsLoadCall
     /\ last.doc = MapNode(<<Entry(n, StatusMap(key, StrNode(AnyGlob)))>>)
     /\ StatusTokens(key) # <<>>
     /\ Range(StatusTokens(key)) \subseteq Range(ChangeStatus))
    => /\ last.error = NoError
       /\ Len(filter.rules) = 1
       /\ Len(filter.rules[1].value) = 1
       /\ filter.rules[1].value[1].status = StatusOf(StatusTokens(key))

\* C8: when load throws for a document of rules, the rules table is what it
\* was before the call.
C8_LoadIsAtomic ==
  (last.op = "load" /\ last.doc.t = "map" /\ last.error # NoError) => filter.rules = last.before

\* a sequence of pattern strings and pattern lists holding at least one list
IsListOfLists(n) ==
  /\ n.t = "seq"
  /\ \A i \in 1..Len(n.v) : n.v[i].t = "str" \/ isStringsArray(n.v[i])
  /\ \E i \in 1..Len(n.v) : n.v[i].t = "seq"

\* the same sequence with the patterns of the lists written in place
RECURSIVE Inlined(_)
Inlined(nodes) ==
  IF nodes = <<>> THEN <<>>
  ELSE (IF Head(nodes).t = "seq" THEN Head(nodes).v ELSE <<Head(nodes)>>) \o Inlined(Tail(nodes))

\* C9: a rule whose sequence holds pattern lists (resolved aliases) among its
\* patterns loads and matches, for every file list, as the rule with the
\* patterns of the lists inlined in one flat sequence.
C9_AliasEquivalence ==
  (IsLoadCall /\ last.doc.t = "map" /\ Len(last.doc.v) = 1 /\ IsListOfLists(last.doc.v[1].v))
    => LET flatDoc == MapNode(<<Entry(last.doc.v[1].k, SeqNode(Inlined(last.doc.v[1].v.v)))>>)
           flat == load(<<>>, flatDoc, last.globalIgnoreArray)
       IN /\ last.error = flat.error
          /\ last.error = NoError =>
               \A files \in FileLists :
                  match(filter.rules, files).result = match(flat.rules, files).result

\* the rule [[src/**], **]: two items where the inlined rule has one
C9_Witness ==
  /\ IsLoadCall
  /\ last.error = NoError
  /\ last.doc.t = "map"
  /\ Len(last.doc.v) = 1
  /\ last.doc.v[1].v = SeqNode(<<SeqNode(<<StrNode(SrcGlob)>>), StrNode(AnyGlob)>>)
  /\ Len(filter.rules[1].value) = 2
  /\ \E files \in FileLists : Len(match(filter.rules, files).result[1].value) = 2

\* C10: a call of match leaves the rules table and the file list it was
\* given unchanged, and a repeated call returns what the call before it
\* returned for the same input.
C10_MatchIsReadOnly ==
  [][last'.op = "match" =>
       /\ filter' = filter
       /\ last'.before = filter'.rules
       /\ last'.files = last'.input
       /\ (last.op = "match" /\ last.input = last'.input) => last'.result = last.result]_vars

\* a call of match following a call of match, with a non-empty result
C10_Witness ==
  /\ IsMatchCall
  /\ filter.rules = last.before
  /\ last.files = last.input
  /\ Len(last.result) = 2
  /\ \A i \in 1..2 : last.result[i].value # <<>>

\* paths in which a folder or the file has a name that starts with a dot
DotPath == <<".x", ".x">>
SrcDotPath == <<"src", ".x">>

\* the rule items of the Filter object: every item of every rule
RuleItems ==
  UNION {Range(filter.rules[i].value) : i \in 1..Len(filter.rules)}

Ignores(m, path) == \E j \in 1..Len(m.ignore) : Test(m.ignore[j], path, TRUE)

\* C15: every matcher of every loaded rule, whether it comes from a pattern,
\* an array of patterns or a status-qualified entry, is compiled with dot set
\* to true: `**` matches a path whose folder and file names start with a
\* dot, and `src/**` a dot file in src, unless the path is ignored.
C15_EveryMatcherHasDot ==
  filter.exists =>
    \A item \in RuleItems :
       LET m == item.isMatch
       IN /\ m.dot = TRUE
          /\ ((\E g \in 1..Len(m.globs) : m.globs[g] = AnyGlob) /\ ~Ignores(m, DotPath))
               => Matches(m, DotPath)
          /\ ((\E g \in 1..Len(m.globs) : m.globs[g] = SrcGlob) /\ ~Ignores(m, SrcDotPath))
               => Matches(m, SrcDotPath)

\* a rule table with a matcher of a pattern and one of a status-qualified
\* entry, both matching the dot path
C15_Witness ==
  /\ filter.exists
  /\ \E item \in RuleItems : ~item.status.defined /\ Matches(item.isMatch, DotPath)
  /\ \E item \in RuleItems : item.status.defined /\ Matches(item.isMatch, DotPath)

\* C16: a document whose rules are pattern strings, the empty string among
\* them, is loaded without an error.
C16_EmptyPatternNeverThrows ==
  (/\ IsLoadCall
   /\ last.doc.t = "map"
   /\ \A i \in 1..Len(last.doc.v) : last.doc.v[i].v \in GoodGlobNodes \cup {StrNode(EmptyGlob)})
    => last.error = NoError

(***************************************************************************)
(* Properties of main.ts                                                   *)
(***************************************************************************)
\* the calls in which exportResults ran, and the format it was given
Exported == main.op = "exportResults" \/ (main.op = "run" /\ main.matched)

FormatGiven ==
  IF main.op = "exportResults" THEN main.input.format
  ELSE IF toLowerCase(main.input.listFiles) # <<>> THEN toLowerCase(main.input.listFiles)
  ELSE FormatNone

\* the setOutput calls of the loop: those of the i-th rule start after At(i)
PerRule == IF FormatGiven = FormatNone THEN 2 ELSE 3
At(i) == (i - 1) * PerRule

\* C11: for every rule of the results, exportResults sets the output named by
\* the rule to whether the rule's list has a file and `<rule>_count` to the
\* length of the list, and sets `<rule>_files` exactly when the format is not
\* 'none'; these are the only outputs the loop sets for the rule.
C11_PerRuleOutputs ==
  Exported =>
    /\ Len(main.outputs) \in {PerRule * Len(main.results), PerRule * Len(main.results) + 1}
    /\ \A i \in 1..Len(main.results) :
         LET key == main.results[i].key
             files == main.results[i].value
         IN /\ main.outputs[At(i) + 1] = Output(key, JsBoolean(files # <<>>))
            /\ main.outputs[At(i) + 2] = Output(key \o Suffix_count, JsNumber(Len(files)))
            /\ FormatGiven # FormatNone => main.outputs[At(i) + 3].name = key \o Suffix_files

\* two rules, one with two files and one with none, and a list format
C11_Witness ==
  /\ main.op = "exportResults"
  /\ FormatGiven = FormatJson
  /\ Len(main.results) = 2
  /\ Len(main.results[1].value) = 2
  /\ main.results[2].value = <<>>
  /\ Len(main.outputs) = 7

\* the file list of a rule in a result table
FilesOf(results, key) == results[CHOOSE i \in 1..Len(results) : results[i].key = key].value

\* the value the `changes` output was last set to, as a sequence of at most one value
ChangesOutput ==
  LET idx == {i \in 1..Len(main.outputs) : main.outputs[i].name = Name_changes}
  IN IF idx = {} THEN <<>> ELSE <<main.outputs[CHOOSE i \in idx : \A j \in idx : j <= i].value>>

\* the names of the rules of the filters document, in the order of the document
DefinedRules == [i \in 1..Len(main.input.filters.doc.v) |-> main.input.filters.doc.v[i].k]

\* C12: when no rule is named `changes`, the `changes` output is the JSON
\* array of the names of the rules with a non-empty file list, in the order
\* in which the rules were defined.
C12_ChangesInDefinitionOrder ==
  (main.op = "run" /\ main.matched /\ main.input.filters.doc.t = "map" /\ ~HasKey(main.results, Name_changes)) =>
    ChangesOutput =
      <<JsString(JSONstringify(SelectSeq(DefinedRules, LAMBDA k : FilesOf(main.results, k) # <<>>)))>>

\* C13: when a rule is named `changes`, exportResults does not write the
\* list of changes to the `changes` output: the output is written once, with
\* the boolean of the rule, and the log says that the list could not be set.
C13_ChangesCollisionDetected ==
  (Exported /\ HasKey(main.results, Name_changes)) =>
    /\ ChangesOutput = <<JsBoolean(FilesOf(main.results, Name_changes) # <<>>)>>
    /\ Cardinality({i \in 1..Len(main.outputs) : main.outputs[i].name = Name_changes}) = 1
    /\ main.log[Len(main.log)] =
         Log("info", "Cannot set changes output variable - name already used by filter output", <<>>)

\* a rule named `changes` without files, after a rule with files
C13_Witness ==
  /\ main.op = "exportResults"
  /\ Len(main.results) = 2
  /\ main.results[1].key = <<"a">> /\ main.results[1].value # <<>>
  /\ main.results[2].key = Name_changes /\ main.results[2].value = <<>>
  /\ ChangesOutput = <<JsBoolean(FALSE)>>

Name_any_changed == <<"a", "n", "y", "_", "c", "h", "a", "n", "g", "e", "d">>
Name_all_changed == <<"a", "l", "l", "_", "c", "h", "a", "n", "g", "e", "d">>

\* setOutput(name, value) was called
WasSet(name, value) == \E i \in 1..Len(main.outputs) : main.outputs[i] = Output(name, value)

\* C14: exportResults sets `any_changed` to whether some rule has a non-empty
\* file list and `all_changed` to whether every rule has one (true when
\* there is no rule).
C14_AggregatesReported ==
  Exported =>
    /\ WasSet(Name_any_changed, JsBoolean(\E i \in 1..Len(main.results) : main.results[i].value # <<>>))
    /\ WasSet(Name_all_changed, JsBoolean(\A i \in 1..Len(main.results) : main.results[i].value # <<>>))

\* the list-files input as run reads it
ListFilesRead ==
  IF toLowerCase(main.input.listFiles) # <<>> THEN toLowerCase(main.input.listFiles) ELSE FormatNone

\* what new Filter(filtersYaml) does with the filters input of the run
Constructing == load(<<>>, main.input.filters.doc, <<>>)

ConstructorThrows ==
  /\ readFilters(main.input.filters) = NoError
  /\ main.input.filters.doc # NoDoc
  /\ Constructing.error # NoError

\* C17: when the constructor of Filter throws or the list-files input is no
\* export format, run calls setFailed, does not call match and sets no
\* output; a run that calls match has loaded every rule of the document.
C17_FailureStopsRun ==
  main.op = "run" =>
    /\ (ConstructorThrows \/ ~isExportFormat(ListFilesRead)) =>
         /\ main.failed # NoMessage
         /\ ~main.matched
         /\ main.results = <<>>
         /\ main.outputs = <<>>
    /\ (ConstructorThrows /\ isExportFormat(ListFilesRead)) => main.failed = MessageOf(Constructing.error)
    /\ (main.matched /\ main.input.filters.doc # NoDoc) =>
         /\ Constructing.error = NoError
         /\ \A i \in 1..Len(main.input.filters.doc.v) : HasKey(main.results, main.input.filters.doc.v[i].k)

\* a run whose filters document has a good rule followed by a malformed one:
\* load throws after it has stored the first rule
C17_Witness ==
  /\ main.op = "run"
  /\ isExportFormat(ListFilesRead)
  /\ ConstructorThrows
  /\ Constructing.rules # <<>>
  /\ main.failed = MessageOf(Constructing.error)

IsPullRequest(context) == context.eventName \in {"pull_request", "pull_request_target"}

\* C18: on a pull_request or pull_request_target event the base input does
\* not change how the changed files are detected: whatever the base,
\* getChangedFiles invokes the GitHub API when there is a token and the
\* detection in the last commit otherwise.
C18_BaseIgnoredOnPullRequest ==
  (main.op = "getChangedFiles" /\ IsPullRequest(main.input.context)) =>
    /\ \A base \in Bases :
         getChangedFiles(main.input.token, base, main.input.initialFetchDepth, main.input.context,
                         main.input.currentRef).calls = main.calls
    /\ main.calls = IF main.input.token # ""
                    THEN <<Detect("getChangedFilesFromApi", <<JsString(main.input.token)>>)>>
                    ELSE <<Detect("getChangesInLastCommit", <<>>)>>

\* the refs getChangedFilesFromGit decides on: the short name of base, or the
\* default branch when base is empty; the short name of the pushed ref, or
\* the current ref when the event has none; the before SHA of a push
BaseOf(input) ==
  IF getShortName(input.base) # <<>> THEN getShortName(input.base) ELSE input.context.default_branch
PushedOf(input) ==
  IF getShortName(input.context.ref) # <<>> THEN getShortName(input.context.ref) ELSE input.currentRef
BeforeOf(input) == IF input.context.eventName = "push" THEN input.context.before ELSE <<>>

\* C19: getChangedFilesFromGit throws, invoking no detection routine, exactly
\* when there is neither a base nor a default branch, and otherwise invokes
\* exactly one routine; for a base that is not a commit SHA it is
\* git.getChanges against the before commit when base names the pushed ref
\* and the push carries a before SHA other than the null SHA, and
\* git.getChangesSinceMergeBase with base when base does not name the pushed
\* ref.
C19_GitDetectionRouting ==
  main.op = "getChangedFilesFromGit" =>
    LET baseRef == BaseOf(main.input)
        pushRef == PushedOf(main.input)
        beforeSha == BeforeOf(main.input)
    IN /\ (main.error # NoError) <=> (baseRef = <<>>)
       /\ main.error # NoError => main.calls = <<>>
       /\ main.error = NoError => Len(main.calls) = 1
       /\ (baseRef # <<>> /\ ~isGitSha(baseRef) /\ baseRef = pushRef /\ beforeSha \notin {<<>>, NULL_SHA})
            => main.calls = <<Detect("getChanges", <<JsString(beforeSha)>>)>>
       /\ (baseRef # <<>> /\ ~isGitSha(baseRef) /\ baseRef # pushRef)
            => main.calls = <<Detect("getChangesSinceMergeBase",
                                     <<JsString(baseRef), JsNumber(main.input.initialFetchDepth)>>)>>

\* base given as refs/heads/main on a push to main with a before commit
C19_Witness ==
  /\ main.op = "getChangedFilesFromGit"
  /\ main.input.base = RefsHeads \o Main
  /\ main.input.context.ref = RefsHeads \o Main
  /\ main.input.context.eventName = "push"
  /\ main.input.context.before = SomeSha
  /\ main.calls = <<Detect("getChanges", <<JsString(SomeSha)>>)>>

\* C20: when base names the pushed ref, so that the changes are detected
\* against the previously pushed commit, and the before SHA of the push is
\* the null SHA, all tracked files are listed as added.
C20_NoPreviousCommitListsAllAsAdded ==
  (/\ main.op = "getChangedFilesFromGit"
   /\ main.input.context.ref # <<>>
   /\ ~isGitSha(BaseOf(main.input))
   /\ BaseOf(main.input) = PushedOf(main.input)
   /\ BeforeOf(main.input) = NULL_SHA)
    => main.calls = <<Detect("listAllFilesAsAdded", <<>>)>>

(***************************************************************************)
(* Properties of getChangesSinceMergeBase                                  *)
(***************************************************************************)
\* the fetches that ask for a number of commits: the first one and the deepening ones
IsDepthRequest(f) == f.kind \in {"depth", "deepen"}

Requests == SelectSeq(search.fetches, IsDepthRequest)

Doubling ==
  \A i \in 1 .. Len(Requests) :
    /\ Requests[i].kind = "depth" <=> i = 1
    /\ i = 1 => Requests[i].depth = search.initialFetchDepth
    /\ i > 1 => Requests[i].depth = Min(2 * Requests[i - 1].depth, MAX_SAFE_INTEGER)

StopsAtOnce ==
  \A i \in 1 .. Len(Requests) :
    Requests[i].kind = "deepen" =>
      /\ ~Requests[i].mergeBase
      /\ i < Len(Requests) => Requests[i].after # Requests[i].before

\* C21: each deepening fetch asks for twice the commits of the request before it,
\* from initialFetchDepth on and never more than Number.MAX_SAFE_INTEGER; no deepening
\* fetch is made once a merge base exists or after a deepening fetch that left the
\* commit count unchanged; and every search on a finite history comes to its end
C21_SearchDoublesAndTerminates ==
  /\ [](Doubling /\ StopsAtOnce)
  /\ (search.pc # "idle") ~> (search.pc = "done")

C21_Witness ==
  /\ search.pc = "done"
  /\ search.noMergeBase
  /\ \E i \in 2 .. Len(Requests) :
       /\ Requests[i].depth = MAX_SAFE_INTEGER
       /\ 2 * Requests[i - 1].depth > MAX_SAFE_INTEGER
       /\ Requests[i].after # Requests[i].before

SearchEnded == search.pc = "done" /\ search.error = NoError

UnchangedThenAll ==
  LET n == Len(search.fetches)
  IN /\ n >= 2
     /\ search.fetches[n].kind = "all"
     /\ search.fetches[n - 1].kind = "deepen"
     /\ search.fetches[n - 1].after = search.fetches[n - 1].before

ParsedNameStatus == main.op = "parseGitDiffNameStatusOutput"

\* the mapping of the status letters as it is documented
StatusOfLetter(letter) ==
  CASE letter = "A" -> Added
    [] letter = "C" -> Copied
    [] letter = "D" -> Deleted
    [] letter = "M" -> Modified
    [] letter = "R" -> Renamed
    [] letter = "U" -> Unmerged

KnownLetters(pairs) == \A i \in 1 .. Len(pairs) : pairs[i].letter \in StatusLetters

\* C22: the parser of the name-status output returns one record for each pair of a
\* status letter and a file name, in the order of the output, with the file name as
\* printed and the status the letter stands for; empty tokens and a last token
\* without a pair give no record
C22_OneRecordPerPair ==
  ParsedNameStatus /\ KnownLetters(main.input.pairs) =>
    /\ Len(main.results) = Len(main.input.pairs)
    /\ \A i \in 1 .. Len(main.input.pairs) :
         /\ main.results[i].filename = main.input.pairs[i].filename
         /\ main.results[i].status = JsString(StatusOfLetter(main.input.pairs[i].letter))

C22_Witness ==
  /\ ParsedNameStatus
  /\ KnownLetters(main.input.pairs)
  /\ Len(main.input.pairs) = 2
  /\ main.input.pairs[1].letter # main.input.pairs[2].letter
  /\ main.input.layout.leading /\ main.input.layout.doubled /\ main.input.layout.trailing # <<>>
  /\ Len(main.results) = 2

Merged == main.op = "getGitDiffStatusNumstat"

IsChangeStatusValue(status) == status.t = "string" /\ status.v \in ChangeStatus

\* C27: every record made from the output of git carries one of the six values of
\* ChangeStatus, whatever letter git printed; the merged list has one record for
\* each numstat entry, in the order of the numstat entries; and the merge throws
\* when the file of a numstat entry has no status entry
C27_StatusAlwaysChangeStatus ==
  Merged =>
    /\ \A i \in 1 .. Len(main.input.statusFiles) : IsChangeStatusValue(main.input.statusFiles[i].status)
    /\ main.error = NoError =>
         /\ Len(main.results) = Len(main.input.numstat)
         /\ \A i \in 1 .. Len(main.results) :
              /\ main.results[i].filename = main.input.numstat[i].filename
              /\ IsChangeStatusValue(main.results[i].status)
    /\ main.error # NoError <=>
         \E i \in 1 .. Len(main.input.numstat) :
           \A j \in 1 .. Len(main.input.pairs) :
             main.input.pairs[j].filename # main.input.numstat[i].filename

\* the rest of it holds: the records follow the numstat entries, and a file
\* without a status entry makes it throw
MergeFollowsNumstat ==
  Merged =>
    /\ main.error = NoError =>
         /\ Len(main.results) = Len(main.input.numstat)
         /\ \A i \in 1 .. Len(main.results) :
              main.results[i].filename = main.input.numstat[i].filename
    /\ main.error # NoError <=>
         \E i \in 1 .. Len(main.input.numstat) :
           \A j \in 1 .. Len(main.input.pairs) :
             main.input.pairs[j].filename # main.input.numstat[i].filename

(***************************************************************************)
(* Properties of getChangedFilesFromApi                                    *)
(***************************************************************************)
FetchedFromApi == main.op = "getChangedFilesFromApi"

\* the number of the first page without rows, or with a status other than 200
LastPage(server) ==
  IF \E p \in 1 .. Len(server) : server[p].status # 200 \/ server[p].data = <<>>
  THEN CHOOSE p \in 1 .. Len(server) :
         /\ server[p].status # 200 \/ server[p].data = <<>>
         /\ \A q \in 1 .. (p - 1) : server[q].status = 200 /\ server[q].data # <<>>
  ELSE Len(server) + 1

RECURSIVE RowsUpTo(_, _)
RowsUpTo(server, n) == IF n = 0 THEN <<>> ELSE RowsUpTo(server, n - 1) \o server[n].data

\* the rows of the pages before the last one asked for
RowsServed == RowsUpTo(main.input.server, LastPage(main.input.server) - 1)

\* the index in the returned list of the first record of row i
RECURSIVE RecordIndex(_, _)
RecordIndex(rows, i) ==
  IF i = 1 THEN 1 ELSE RecordIndex(rows, i - 1) + (IF rows[i - 1].status = Renamed THEN 2 ELSE 1)

\* C23: the list getChangedFilesFromApi returns has no record with the status renamed
\* or removed: a renamed row gives (new name, added) and right after it (previous
\* name, deleted), a removed row gives (name, deleted), any other row one record with
\* its own status; the records follow the order of the rows across and within pages
C23_RowMapping ==
  FetchedFromApi /\ main.error = NoError =>
    /\ \A k \in 1 .. Len(main.results) : main.results[k].status \notin {Renamed, Removed}
    /\ Len(main.results) = RecordIndex(RowsServed, Len(RowsServed) + 1) - 1
    /\ \A i \in 1 .. Len(RowsServed) :
         LET row == RowsServed[i]
             k == RecordIndex(RowsServed, i)
         IN IF row.status = Renamed
            THEN /\ main.results[k] = File(row.filename, Added)
                 /\ main.results[k + 1] = File(row.previous_filename, Deleted)
            ELSE IF row.status = Removed
            THEN main.results[k] = File(row.filename, Deleted)
            ELSE main.results[k] = File(row.filename, row.status)

C23_Witness ==
  /\ FetchedFromApi
  /\ main.error = NoError
  /\ Len(main.calls) = 3
  /\ \E i, j \in 1 .. Len(RowsServed) :
       i < j /\ RowsServed[i].status = Removed /\ RowsServed[j].status = Renamed
  /\ Len(main.results) = 6

\* C24: the pages are asked for in the order 1, 2, 3, ... up to the first page that
\* has no rows or does not come with the status 200; after a page without rows the
\* list holds the records of all the rows of the pages before it, whatever count of
\* changed files the pull request declares; a status other than 200 ends the call
\* with an error and without a list
C24_PagesUntilEmpty ==
  FetchedFromApi =>
    LET server == main.input.server
        n == LastPage(server)
    IN /\ main.calls = [p \in 1 .. n |-> p]
       /\ IF n <= Len(server) /\ server[n].status # 200
          THEN main.error # NoError /\ main.results = <<>>
          ELSE /\ main.error = NoError
               /\ Len(main.results) = RecordIndex(RowsServed, Len(RowsServed) + 1) - 1

C24_Witness ==
  /\ FetchedFromApi
  /\ main.error = NoError
  /\ main.calls = <<1, 2, 3>>
  /\ Len(main.input.server) = 3
  /\ main.input.pr.changed_files = 0
  /\ Len(main.results) >= 3

(***************************************************************************)
(* More properties of exportResults                                        *)
(***************************************************************************)
\* C26: in one call of exportResults no output name is written twice: the names
\* `<key>`, `<key>_count`, `<key>_files` of different rules and the name `changes`
\* are all different, so that no value is overwritten by a later one
C26_OutputNamesWrittenOnce ==
  main.op = "exportResults" =>
    \A i, j \in 1 .. Len(main.outputs) : main.outputs[i].name = main.outputs[j].name => i = j

(***************************************************************************)
(* Properties of csvEscape and shellEscape                                 *)
(***************************************************************************)
Escaped == main.op \in {"csvEscape", "shellEscape"}

SafeHere(c) == IF main.op = "csvEscape" THEN c \in CsvSafe ELSE c \in ShellSafe

AllSafe(value) == \A k \in 1 .. Len(value) : SafeHere(value[k])

NotAWord == <<"not a single word">>

\* the word a POSIX shell reads from the text, or NotAWord when the shell would split
\* the text, expand a part of it or find a quote left open
RECURSIVE ShellWord(_, _, _)
ShellWord(s, mode, word) ==
  IF s = <<>> THEN (IF mode = "plain" THEN word ELSE NotAWord)
  ELSE LET c == Head(s)
       IN IF mode = "single"
          THEN (IF c = "'" THEN ShellWord(Tail(s), "plain", word)
                ELSE ShellWord(Tail(s), "single", Append(word, c)))
          ELSE IF mode = "double"
          THEN (IF c = "\"" THEN ShellWord(Tail(s), "plain", word)
                ELSE IF c = "$" THEN NotAWord
                ELSE ShellWord(Tail(s), "double", Append(word, c)))
          ELSE IF c = "'" THEN ShellWord(Tail(s), "single", word)
          ELSE IF c = "\"" THEN ShellWord(Tail(s), "double", word)
          ELSE IF c = "\\" THEN (IF Len(s) >= 2 THEN ShellWord(Tail(Tail(s)), "plain", Append(word, s[2]))
                                 ELSE NotAWord)
          ELSE IF c \in {" ", "\n", "$"} THEN NotAWord
          ELSE ShellWord(Tail(s), "plain", Append(word, c))

\* "" inside a quoted field of a CSV line stands for one double quote
RECURSIVE CsvQuoted(_, _)
CsvQuoted(s, field) ==
  IF s = <<>> THEN NotAWord
  ELSE IF Head(s) # "\"" THEN CsvQuoted(Tail(s), Append(field, Head(s)))
  ELSE IF Len(s) = 1 THEN field
  ELSE IF s[2] = "\"" THEN CsvQuoted(Tail(Tail(s)), Append(field, "\""))
  ELSE NotAWord

\* the field a CSV reader (RFC 4180) reads from the text, or NotAWord when the text is
\* not one field
CsvField(s) ==
  IF s # <<>> /\ Head(s) = "\"" THEN CsvQuoted(Tail(s), <<>>)
  ELSE IF \E k \in 1 .. Len(s) : s[k] \in {",", "\"", "\n"} THEN NotAWord
  ELSE s

Unquoted(s) == IF main.op = "csvEscape" THEN CsvField(s) ELSE ShellWord(s, "plain", <<>>)

\* C28: csvEscape and shellEscape return the value as it is only when it is empty or
\* has safe characters only; a value with a character outside the safe set (a line
\* break followed by unsafe characters, or a comma for csvEscape) comes back quoted,
\* and unquoting the result gives the value
C28_UnsafeValuesAreQuoted ==
  Escaped =>
    /\ main.results = main.input.value => AllSafe(main.input.value)
    /\ ~AllSafe(main.input.value) => Unquoted(main.results) = main.input.value

\* the same holds of the values without a line break
QuotedOnOneLine ==
  Escaped /\ ~includes(main.input.value, "\n") =>
    /\ main.results = main.input.value => AllSafe(main.input.value)
    /\ ~AllSafe(main.input.value) => Unquoted(main.results) = main.input.value

(***************************************************************************)
(* Exclusion                                                               *)
(***************************************************************************)
IsPathsEntry(node) ==
  /\ node.t = "map"
  /\ Len(node.v) = 2
  /\ node.v[1].k = Key_paths
  /\ node.v[2].k = Key_paths_ignore
  /\ isStringsArray(node.v[2].v)

\* the patterns of the paths_ignore list of the entry
IgnoredBy(entry) == {entry.v[2].v.v[i].v : i \in 1 .. Len(entry.v[2].v.v)}

\* a rule whose items are all parsed from inside one {paths, paths_ignore} entry
MadeOfOneEntry(value) == isArray(value) /\ Len(value.v) = 1 /\ IsPathsEntry(value.v[1])

\* the patterns that exclude a file from every item of the rule: the global ignore
\* list, and the paths_ignore list of the entry the rule is made of
ExcludedFrom(value, g) ==
  {g[i].v : i \in 1 .. Len(g)} \cup (IF MadeOfOneEntry(value) THEN IgnoredBy(value.v[1]) ELSE {})

LoadedMap == IsLoadCall /\ last.error = NoError /\ last.doc.t = "map"

\* C29: no item of a rule matches a file whose name matches a pattern of the global
\* ignore list, or of the paths_ignore list of the {paths, paths_ignore} entry the
\* item was parsed from, also when a further such entry lies between the two
C29_ExclusionNeverBypassed ==
  LoadedMap =>
    \A i \in 1 .. Len(last.doc.v) :
      LET value == last.doc.v[i].v
          items == FilesOf(filter.rules, last.doc.v[i].k)
      IN \A item \in Range(items), path \in Filenames, pat \in ExcludedFrom(value, last.globalIgnoreArray) :
           Test(pat, path, TRUE) => ~Matches(item.isMatch, path)

\* the same for the entries that have no other entry inside
ExclusionWithoutNesting ==
  LoadedMap =>
    \A i \in 1 .. Len(last.doc.v) :
      LET value == last.doc.v[i].v
          items == FilesOf(filter.rules, last.doc.v[i].k)
      IN (MadeOfOneEntry(value) => ~IsPathsEntry(value.v[1].v[1].v)) =>
           \A item \in Range(items), path \in Filenames, pat \in ExcludedFrom(value, last.globalIgnoreArray) :
             Test(pat, path, TRUE) => ~Matches(item.isMatch, path)

(***************************************************************************)
(* Properties of parseFilesInput                                           *)
(***************************************************************************)
ParsedFilesInput == main.op = "parseFilesInput"

\* the lines of the input: the empty text after a line break at the end is not a line
LinesOf(customfiles) ==
  IF customfiles[Len(customfiles)] = <<>> THEN SubSeq(customfiles, 1, Len(customfiles) - 1)
  ELSE customfiles

\* the whitespace-separated tokens of a line
Words(line) == SelectSeq(splitWhitespace(line), NonEmpty)

\* C30: parseFilesInput gives one file record for each line of the `files` input, in
\* the order of the lines: (the token, unmerged) for a line of one token, (second
\* token, status of the first token) for a line of two tokens; a line of more tokens
\* makes it throw; no line that is not empty is left out
C30_OneRecordPerLine ==
  ParsedFilesInput =>
    LET lines == LinesOf(main.input.customfiles)
    IN (\A i \in 1 .. Len(lines) : lines[i] # <<>>) =>
         IF \E i \in 1 .. Len(lines) : Len(Words(lines[i])) > 2
         THEN main.error # NoError
         ELSE /\ main.error = NoError
              /\ Len(main.results) = Len(lines)
              /\ \A i \in 1 .. Len(lines) :
                   LET words == Words(lines[i])
                   IN IF Len(words) = 1
                      THEN main.results[i] = FileStatus(JsString(Unmerged), words[1])
                      ELSE main.results[i] = FileStatus(statusMap(words[1]), words[2])

\* the same holds of the inputs that end with a line break
OneRecordPerTerminatedLine ==
  ParsedFilesInput /\ main.input.customfiles[Len(main.input.customfiles)] = <<>> =>
    LET lines == LinesOf(main.input.customfiles)
    IN (\A i \in 1 .. Len(lines) : lines[i] # <<>>) =>
         IF \E i \in 1 .. Len(lines) : Len(Words(lines[i])) > 2
         THEN main.error # NoError
         ELSE /\ main.error = NoError
              /\ Len(main.results) = Len(lines)
              /\ \A i \in 1 .. Len(lines) :
                   LET words == Words(lines[i])
                   IN IF Len(words) = 1
                      THEN main.results[i] = FileStatus(JsString(Unmerged), words[1])
                      ELSE main.results[i] = FileStatus(statusMap(words[1]), words[2])

====
